---------------------------- MODULE Spec2Model ----------------------------
(***************************************************************************)
(* VocalCore pitch engine: YIN pitch detection (pitchDetection), track     *)
(* smoothing, and the TD-PSOLA correction pipeline (pitchCorrection).      *)
(*                                                                         *)
(* Number representation.  The source computes in IEEE doubles and stores  *)
(* buffers as Float32.  The model uses integers:                           *)
(*   - samples are integer amplitudes (a sample value is an integer        *)
(*     multiple of one quantum);                                           *)
(*   - a value of the normalized difference function is an exact rational  *)
(*     [n, d]; d = 0 stands for NaN (0/0), which compares false with       *)
(*     everything, as in the source;                                       *)
(*   - frequencies are in 1/FreqScale Hz, lags in 1/TauScale samples, MIDI *)
(*     pitch in 1/MidiScale semitones (cents), times in 1/TimeUnit s.      *)
(* Arrays are 0-based in the source and 1-based sequences here: At(s, i)   *)
(* reads index i of the source.                                            *)
(***************************************************************************)
EXTENDS Integers, Sequences, FiniteSets, TLC

VARIABLES
    signal,        \* the input sample buffer of the call
    sampleRate,    \* sample rate argument (Hz)
    detectArgs,    \* detectPitch's arguments hopSize, windowSize, threshold, minFreq, maxFreq
    medianWindowSize, \* smoothPitchTrack's argument
    params,        \* CorrectionParams of correctPitch
    heap,          \* the PitchFrame objects, by reference
    track,         \* the PitchTrack: frames (references into heap), sampleRate, hopSize, medianPitch
    smoothed,      \* the array returned by smoothPitchTrack (references into heap)
    before,        \* the frame values of track as they were when smoothPitchTrack was called
    returned,      \* what each call made so far returned, in call order
    output,        \* buffer returned by correctPitch
    hardOutput,    \* buffer returned by hardTune
    run,           \* what the last correctPitch call did: stages run, marks, resynthesized buffer
    pc,            \* which calls have been made
    audioFile,     \* App: the selected file (useState audioFile)
    isRecording,   \* App: useState isRecording
    recorder,      \* App: the MediaRecorder held by mediaRecorderRef
    state,         \* App: ProcessingState (isAnalyzing, analysis, expertResultUrl)
    cloneState,    \* App: CloneState (referenceVoice, isGenerating, processingStep, resultAudioUrl)
    requests       \* App: the calls to the generative service made so far, in call order

engineVars == <<signal, sampleRate, detectArgs, medianWindowSize, params, heap, track,
                smoothed, before, returned, output, hardOutput, run, pc>>

appVars == <<audioFile, isRecording, recorder, state, cloneState, requests>>

vars == <<signal, sampleRate, detectArgs, medianWindowSize, params, heap, track,
          smoothed, before, returned, output, hardOutput, run, pc,
          audioFile, isRecording, recorder, state, cloneState, requests>>

----------------------------------------------------------------------------
(* Fixed-point units *)

FreqScale == 10^3      \* frequencies in mHz
TauScale  == 10^3      \* refined lag in 1/1000 sample
CmScale   == 10^4      \* normalized difference values, when a number is needed
MidiScale == 10^2      \* MIDI pitch in cents
TimeUnit  == 10^3      \* frame time in ms
LogOne    == 2^12      \* mantissa 1.0 of the binary logarithm
LogBits   == 10        \* fractional bits of the binary logarithm (Math.log2)

Abs(x) == IF x < 0 THEN -x ELSE x
Max(a, b) == IF a > b THEN a ELSE b
Min(a, b) == IF a < b THEN a ELSE b

\* floor(a / b) and ceil(a / b) for b > 0
FloorDiv(a, b) == a \div b
CeilDiv(a, b) == -((-a) \div b)

\* Math.round(a / b) for b > 0: nearest integer, halves towards +infinity
JsRound(a, b) == (a \div b) + (IF 2 * (a % b) >= b THEN 1 ELSE 0)

\* JavaScript's % (remainder with the sign of the dividend), b > 0
JsRem(a, b) == IF a >= 0 THEN a % b ELSE -((-a) % b)

At(s, i) == s[i + 1]

----------------------------------------------------------------------------
(* pitchDetection: note helpers *)

NOTE_NAMES == <<"C", "C#", "D", "D#", "E", "F", "F#", "G", "G#", "A", "A#", "B">>

\* Bring num/den into [1, 2) by halving or doubling num, counting octaves.
RECURSIVE Log2Norm(_, _, _)
Log2Norm(num, den, e) ==
    IF num >= 2 * den THEN Log2Norm(num \div 2, den, e + 1)
    ELSE IF num < den THEN Log2Norm(2 * num, den, e - 1)
    ELSE [num |-> num, e |-> e]

\* Fractional bits of log2 of the mantissa m / LogOne in [1, 2), by repeated squaring.
RECURSIVE Log2Frac(_, _, _)
Log2Frac(m, k, acc) ==
    IF k = 0 THEN acc
    ELSE LET sq == (m * m) \div LogOne IN
         IF sq >= 2 * LogOne THEN Log2Frac(sq \div 2, k - 1, 2 * acc + 1)
         ELSE Log2Frac(sq, k - 1, 2 * acc)

\* Math.log2(num / den) in units of 2^-LogBits, num > 0, den > 0
Log2Fx(num, den) ==
    LET nz == Log2Norm(num, den, 0)
        m  == LogOne + ((nz.num - den) * LogOne) \div den
    IN  nz.e * (2^LogBits) + Log2Frac(m, LogBits, 0)

\* frequencyToMidi: 69 + 12 * log2(freq / 440), in cents; 0 for freq <= 0
frequencyToMidi(freq) ==
    IF freq <= 0 THEN 0
    ELSE 69 * MidiScale + JsRound(12 * MidiScale * Log2Fx(freq, 440 * FreqScale), 2^LogBits)

\* Math.round(midi)
RoundMidi(midi) == JsRound(midi, MidiScale)

\* getCentsOff: (midi - Math.round(midi)) * 100
getCentsOff(midi) == midi - MidiScale * RoundMidi(midi)

\* midiToNoteName: NOTE_NAMES[roundedMidi % 12] followed by the octave
midiToNoteName(midi) ==
    LET roundedMidi == RoundMidi(midi)
        octave      == FloorDiv(roundedMidi, 12) - 1
        noteIndex   == JsRem(roundedMidi, 12)
    IN  (IF noteIndex >= 0 THEN NOTE_NAMES[noteIndex + 1] ELSE "undefined") \o ToString(octave)

----------------------------------------------------------------------------
(* pitchDetection: detectPitch *)

\* A value of the normalized difference function: the rational n / d, NaN when d = 0
Rat(n, d) == [n |-> n, d |-> d]
IsNaN(a) == a.d = 0
\* n1 / d1 < n2 / d2 for n >= 0 and d > 0, by continued fractions (no products)
RECURSIVE FracLt(_, _, _, _)
FracLt(n1, d1, n2, d2) ==
    IF n1 \div d1 # n2 \div d2 THEN n1 \div d1 < n2 \div d2
    ELSE IF n2 % d2 = 0 THEN FALSE
    ELSE IF n1 % d1 = 0 THEN TRUE
    ELSE FracLt(d2, n2 % d2, d1, n1 % d1)

\* a < b on doubles: false when either side is NaN
Lt(a, b) == a.d # 0 /\ b.d # 0 /\ FracLt(a.n, a.d, b.n, b.d)

\* the value as a number in 1/CmScale (only for values that are not NaN); numerator
\* and denominator are first brought below 10^5 so that the product fits
Fx(a) ==
    LET k == a.d \div (10^5) + 1
    IN  IF a.d \div k = 0 THEN 0
        ELSE (a.n \div a.d) * CmScale + JsRound(((a.n % a.d) \div k) * CmScale, a.d \div k)

\* Step 1: d(tau) = sum over j < halfWindow of (signal[center+j] - signal[center+j+tau])^2
RECURSIVE DiffSum(_, _, _, _)
DiffSum(sig, center, tau, j) ==
    IF j = 0 THEN 0
    ELSE LET delta == At(sig, center + j - 1) - At(sig, center + j - 1 + tau)
         IN  delta * delta + DiffSum(sig, center, tau, j - 1)

Difference(sig, center, halfWindow) ==
    [tau \in 0..(halfWindow - 1) |-> DiffSum(sig, center, tau, halfWindow)]

\* Step 2: cmndf[0] = 1, cmndf[tau] = diff[tau] * tau / runningSum
RECURSIVE RunningSum(_, _)
RunningSum(diff, tau) == IF tau = 0 THEN 0 ELSE diff[tau] + RunningSum(diff, tau - 1)

\* variant: a zero running sum guarded by storing 0 instead of NaN
Cmndf_ZeroGuard(diff, halfWindow) ==
    [tau \in 0..(halfWindow - 1) |->
        IF tau = 0 THEN Rat(1, 1)
        ELSE IF RunningSum(diff, tau) = 0 THEN Rat(0, 1)
        ELSE Rat(diff[tau] * tau, RunningSum(diff, tau))]

Cmndf(diff, halfWindow) ==
    [tau \in 0..(halfWindow - 1) |->
        IF tau = 0 THEN Rat(1, 1) ELSE Rat(diff[tau] * tau, RunningSum(diff, tau))]

\* Step 3: the walk from the first dip to its local minimum
RECURSIVE WalkToLocalMin(_, _, _)
WalkToLocalMin(cmndf, tau, searchMax) ==
    IF tau + 1 < searchMax /\ Lt(cmndf[tau + 1], cmndf[tau])
    THEN WalkToLocalMin(cmndf, tau + 1, searchMax)
    ELSE tau

\* the first tau in [tau, searchMax) below the threshold, walked to its local
\* minimum; -1 when there is none
RECURSIVE FirstDip(_, _, _, _)
FirstDip(cmndf, tau, searchMax, threshold) ==
    IF tau >= searchMax THEN -1
    ELSE IF Lt(cmndf[tau], threshold) THEN WalkToLocalMin(cmndf, tau, searchMax)
    ELSE FirstDip(cmndf, tau + 1, searchMax, threshold)

\* the fallback scan: strict improvements on bestVal, which starts at 1
RECURSIVE GlobalMin(_, _, _, _)
GlobalMin(cmndf, tau, searchMax, best) ==
    IF tau >= searchMax THEN best
    ELSE IF Lt(cmndf[tau], best.val)
         THEN GlobalMin(cmndf, tau + 1, searchMax, [tau |-> tau, val |-> cmndf[tau]])
         ELSE GlobalMin(cmndf, tau + 1, searchMax, best)

\* variant: the global search for every frame, no first dip
ChooseLag_GlobalOnly(cmndf, searchMin, searchMax, threshold) ==
    GlobalMin(cmndf, searchMin, searchMax, [tau |-> -1, val |-> Rat(1, 1)])

\* Step 3: bestTau and bestVal after the two scans
ChooseLag(cmndf, searchMin, searchMax, threshold) ==
    LET dip == FirstDip(cmndf, searchMin, searchMax, threshold)
    IN  IF dip >= 0 THEN [tau |-> dip, val |-> cmndf[dip]]
        ELSE GlobalMin(cmndf, searchMin, searchMax, [tau |-> -1, val |-> Rat(1, 1)])

\* Step 4: parabolic interpolation; the refined lag in 1/TauScale samples
RefineTau(cmndf, bestTau, halfWindow) ==
    IF bestTau > 0 /\ bestTau < halfWindow - 1
    THEN LET c0 == cmndf[bestTau - 1]
             c1 == cmndf[bestTau]
             c2 == cmndf[bestTau + 1]
         IN  IF IsNaN(c0) \/ IsNaN(c1) \/ IsNaN(c2) THEN bestTau * TauScale
             ELSE LET s0  == Fx(c0)
                      s1  == Fx(c1)
                      s2  == Fx(c2)
                      num == s0 - s2
                      den == 2 * (s0 - 2 * s1 + s2)
                  IN  \* Math.abs(adjustment) < 1; a zero denominator gives Infinity or NaN
                      IF den # 0 /\ Abs(num) < Abs(den)
                      THEN bestTau * TauScale
                           + (IF den > 0 THEN JsRound(num * TauScale, den)
                              ELSE JsRound(-num * TauScale, -den))
                      ELSE bestTau * TauScale
    ELSE bestTau * TauScale

\* the PitchFrame pushed by detectPitch for a frequency and a voicing decision
MakeFrame(time, frequency, confidence, voiced) ==
    LET midi == frequencyToMidi(frequency)
    IN  [time       |-> time,
         frequency  |-> frequency,
         confidence |-> confidence,
         midiNote   |-> RoundMidi(midi),
         centsOff   |-> getCentsOff(midi),
         noteName   |-> IF frequency > 0 THEN midiToNoteName(midi) ELSE "-",
         voiced     |-> voiced]

\* variant: the voicing test with <= in place of <
IsVoiced_OrEqual(bestVal, threshold) ==
    bestVal.d # 0 /\ ~Lt(Rat(2 * threshold, 100), bestVal)

\* const voiced = bestVal < threshold * 2 (threshold in percent)
IsVoiced(bestVal, threshold) == Lt(bestVal, Rat(2 * threshold, 100))

\* Steps 1 to 3 of one iteration of the frame loop: cmndf, the search range, and
\* bestTau, bestVal (threshold is in percent: 15 stands for 0.15)
FrameLag(sig, sr, center, windowSize, threshold, minFreq, maxFreq) ==
    LET minPeriod  == FloorDiv(sr, maxFreq)
        maxPeriod  == CeilDiv(sr, minFreq)
        halfWindow == FloorDiv(windowSize, 2)
        diff       == Difference(sig, center, halfWindow)
        cmndf      == Cmndf(diff, halfWindow)
        searchMin  == Max(minPeriod, 2)
        searchMax  == Min(maxPeriod, halfWindow - 1)
    IN  [cmndf     |-> cmndf,
         searchMin |-> searchMin,
         searchMax |-> searchMax,
         best      |-> ChooseLag(cmndf, searchMin, searchMax, Rat(threshold, 100))]

\* one iteration of the frame loop: the frame analysed at `center`
AnalyseFrame(sig, sr, center, windowSize, threshold, minFreq, maxFreq) ==
    LET halfWindow == FloorDiv(windowSize, 2)
        lag        == FrameLag(sig, sr, center, windowSize, threshold, minFreq, maxFreq)
        cmndf      == lag.cmndf
        best       == lag.best
        refinedTau == RefineTau(cmndf, best.tau, halfWindow)
        voiced     == IsVoiced(best.val, threshold)
        frequency  == IF voiced /\ refinedTau > 0
                      THEN JsRound(sr * FreqScale * TauScale, refinedTau) ELSE 0
        confidence == IF voiced THEN CmScale - Fx(best.val) ELSE 0
    IN  MakeFrame(JsRound(center * TimeUnit, sr), frequency, confidence, voiced)

\* variant: a do-while loop, which emits a silent frame when no window fits
RECURSIVE FrameLoop_DoWhile(_, _, _, _, _, _, _)
FrameLoop_DoWhile(sig, sr, center, hopSize, windowSize, threshold, band) ==
    IF center + windowSize < Len(sig)
    THEN <<AnalyseFrame(sig, sr, center, windowSize, threshold, band.minFreq, band.maxFreq)>>
         \o FrameLoop_DoWhile(sig, sr, center + hopSize, hopSize, windowSize, threshold, band)
    ELSE IF center = 0 THEN <<MakeFrame(0, 0, 0, FALSE)>>
    ELSE <<>>

\* for (center = 0; center + windowSize < signal.length; center += hopSize)
RECURSIVE FrameLoop(_, _, _, _, _, _, _)
FrameLoop(sig, sr, center, hopSize, windowSize, threshold, band) ==
    IF center + windowSize < Len(sig)
    THEN <<AnalyseFrame(sig, sr, center, windowSize, threshold, band.minFreq, band.maxFreq)>>
         \o FrameLoop(sig, sr, center + hopSize, hopSize, windowSize, threshold, band)
    ELSE <<>>

\* insertion into an ascending sequence (Array.prototype.sort with (a, b) => a - b)
RECURSIVE InsertSorted(_, _)
InsertSorted(s, x) ==
    IF s = <<>> THEN <<x>>
    ELSE IF x < Head(s) THEN <<x>> \o s
    ELSE <<Head(s)>> \o InsertSorted(Tail(s), x)

RECURSIVE SortAsc(_)
SortAsc(s) == IF s = <<>> THEN <<>> ELSE InsertSorted(SortAsc(Tail(s)), Head(s))

\* frames.filter(f => f.voiced).map(f => f.frequency)
RECURSIVE VoicedFreqs(_)
VoicedFreqs(frames) ==
    IF frames = <<>> THEN <<>>
    ELSE (IF Head(frames).voiced THEN <<Head(frames).frequency>> ELSE <<>>)
         \o VoicedFreqs(Tail(frames))

\* variant: the lower of the two middle elements when the count is even
MedianPitch_Lower(frames) ==
    LET voicedFreqs == SortAsc(VoicedFreqs(frames))
    IN  IF Len(voicedFreqs) > 0
        THEN At(voicedFreqs, FloorDiv(Len(voicedFreqs) - 1, 2))
        ELSE 0

MedianPitch(frames) ==
    LET voicedFreqs == SortAsc(VoicedFreqs(frames))
    IN  IF Len(voicedFreqs) > 0
        THEN At(voicedFreqs, FloorDiv(Len(voicedFreqs), 2))
        ELSE 0

\* detectPitch: the PitchTrack, its frames by value
detectPitch(sig, sr, hopSize, windowSize, threshold, minFreq, maxFreq) ==
    LET frames == FrameLoop(sig, sr, 0, hopSize, windowSize, threshold,
                            [minFreq |-> minFreq, maxFreq |-> maxFreq])
    IN  [frames      |-> frames,
         sampleRate  |-> sr,
         hopSize     |-> hopSize,
         medianPitch |-> MedianPitch(frames)]

----------------------------------------------------------------------------
(* pitchDetection: smoothPitchTrack *)

\* the frequencies of the voiced frames j of frames[lo..hi] (0-based, inclusive)
RECURSIVE Neighborhood(_, _, _)
Neighborhood(frames, lo, hi) ==
    IF lo > hi THEN <<>>
    ELSE (IF At(frames, lo).voiced THEN <<At(frames, lo).frequency>> ELSE <<>>)
         \o Neighborhood(frames, lo + 1, hi)

\* frequency / medianFreq > 1.5 on doubles (x / 0 is Infinity, 0 / 0 is NaN)
RatioAbove(frequency, medianFreq) ==
    IF medianFreq = 0 THEN frequency > 0 ELSE 2 * frequency > 3 * medianFreq

\* frequency / medianFreq < 0.67 on doubles
RatioBelow(frequency, medianFreq) ==
    IF medianFreq = 0 THEN FALSE ELSE 100 * frequency < 67 * medianFreq

\* variant: the neighbourhood read without sorting it
MedianOf_Unsorted(neighborhood) ==
    At(neighborhood, FloorDiv(Len(neighborhood), 2))

\* neighborhood.sort(); neighborhood[Math.floor(neighborhood.length / 2)]
MedianOf(neighborhood) ==
    At(SortAsc(neighborhood), FloorDiv(Len(neighborhood), 2))

\* variant: the median taken from two voiced frames on
EnoughNeighbors_Two(neighborhood) == Len(neighborhood) >= 2

\* neighborhood.length >= 3
EnoughNeighbors(neighborhood) == Len(neighborhood) >= 3

\* the body of the loop for frame i: the frame array after the iteration.  The
\* frame object is updated in place, so later iterations read the corrected value.
SmoothFrame(frames, i, windowArg) ==
    IF ~At(frames, i).voiced THEN frames
    ELSE LET halfWin      == FloorDiv(windowArg, 2)
             neighborhood == Neighborhood(frames, Max(0, i - halfWin),
                                          Min(Len(frames) - 1, i + halfWin))
         IN  IF EnoughNeighbors(neighborhood)
             THEN LET medianFreq == MedianOf(neighborhood)
                      old        == At(frames, i).frequency
                      frequency  == IF RatioAbove(old, medianFreq) THEN old \div 2
                                    ELSE IF RatioBelow(old, medianFreq) THEN old * 2
                                    ELSE old
                      midi       == frequencyToMidi(frequency)
                  IN  [frames EXCEPT ![i + 1] =
                          [@ EXCEPT !.frequency = frequency,
                                    !.midiNote  = RoundMidi(midi),
                                    !.centsOff  = getCentsOff(midi),
                                    !.noteName  = midiToNoteName(midi)]]
             ELSE frames

RECURSIVE SmoothLoop(_, _, _)
SmoothLoop(frames, i, windowArg) ==
    IF i < Len(frames) THEN SmoothLoop(SmoothFrame(frames, i, windowArg), i + 1, windowArg)
    ELSE frames

\* smoothPitchTrack on the frame objects of a track: the values the objects hold
\* when it returns.  The returned array is [...track.frames], a new array of the
\* same objects.
smoothPitchTrack(frames, windowArg) == SmoothLoop(frames, 0, windowArg)

DefaultMedianWindow == 5

\* the default arguments of detectPitch
DefaultThreshold == 15            \* percent: threshold = 0.15
DefaultMinFreq == 60
DefaultMaxFreq == 1200

----------------------------------------------------------------------------
(* Math.exp, Math.sin, Math.cos and Math.pow(2, x) in fixed point *)

FxOne     == 10^4      \* 1.0 of a fixed-point factor (alpha, sine, window weight)
TurnScale == 10^5      \* one full turn of an angle
TwoPiFx   == 62832     \* 2 * Math.PI in 1/FxOne

\* the n-th partial sum of a Taylor series: term is the current term, x2 the factor
\* x^2 (or x) in 1/FxOne, k the index of the next factorial factor, step 1 or 2
RECURSIVE Taylor(_, _, _, _, _)
Taylor(term, x2, k, step, n) ==
    IF n = 0 \/ term = 0 THEN 0
    ELSE term + Taylor(-JsRound(term * x2, FxOne * (IF step = 2 THEN k * (k + 1) ELSE k)),
                       x2, k + step, step, n - 1)

\* cos(x) and sin(x) for x in [0, pi/2], x in 1/FxOne rad
CosRad(x) == Taylor(FxOne, JsRound(x * x, FxOne), 1, 2, 6)
SinRad(x) == Taylor(x, JsRound(x * x, FxOne), 2, 2, 6)

\* radians (1/FxOne) of an angle of u/TurnScale turns, u at most a quarter turn
RadOf(u) == JsRound(u * TwoPiFx, TurnScale)

\* cos(2 * pi * u / TurnScale), in 1/FxOne
CosTurn(u) ==
    LET v == u % TurnScale
        w == IF 2 * v > TurnScale THEN TurnScale - v ELSE v
    IN  IF 4 * w <= TurnScale THEN CosRad(RadOf(w))
        ELSE -CosRad(RadOf(TurnScale \div 2 - w))

\* sin(2 * pi * u / TurnScale), in 1/FxOne
SinTurn(u) == CosTurn(u + 3 * (TurnScale \div 4))

\* Math.exp(-x), x >= 0 in 1/FxOne, in 1/FxOne
RECURSIVE ExpNeg(_)
ExpNeg(x) ==
    IF x > 40 * FxOne THEN 0
    ELSE IF 2 * x > FxOne
         THEN LET h == ExpNeg(x \div 2) IN JsRound(h * h, FxOne)
         ELSE Taylor(FxOne, x, 1, 1, 8)

\* 2^(k/12) for k in 0..11, in 1/10^5
SEMITONE == <<100000, 105946, 112246, 118921, 125992, 133484,
              141421, 149831, 158740, 168179, 178180, 188775>>

\* 2^(r/1200) for r in 0..99 cents, in 1/FxOne: exp(r * ln2 / 1200)
CentFactor(r) ==
    LET y == JsRound(r * 57762, 10^4)
    IN  FxOne + y + (y * y) \div (2 * FxOne) + (y * y * y) \div (6 * FxOne * FxOne)

\* midiToFrequency: 440 * 2^((midi - 69) / 12), midi in cents, result in 1/FreqScale Hz
midiToFrequency(midi) ==
    LET d      == midi - 69 * MidiScale
        octave == FloorDiv(d, 12 * MidiScale)
        c      == d - 12 * MidiScale * octave
        factor == JsRound(SEMITONE[c \div MidiScale + 1] * CentFactor(c % MidiScale), FxOne)
        base   == JsRound(44 * factor, 10)     \* 440 Hz * factor / 10^5, in mHz
    IN  IF octave >= 0 THEN base * (2^octave) ELSE JsRound(base, 2^(-octave))

----------------------------------------------------------------------------
(* pitchCorrection: computeTargetPitches *)

\* variant: no instant case, the retune time taken one millisecond longer
Alpha_NeverInstant(sr, hop, retuneSpeed) ==
    FxOne - ExpNeg(JsRound(hop * 1000 * FxOne, sr * (retuneSpeed + 1)))

\* alpha = 1 - exp(-hopDuration / retuneTimeSec), or 1.0 when retuneSpeed = 0; in 1/FxOne
Alpha(sr, hop, retuneSpeed) ==
    IF retuneSpeed > 0
    THEN FxOne - ExpNeg(JsRound(hop * 1000 * FxOne, sr * retuneSpeed))
    ELSE FxOne

\* variant: the drift seeded by a module-level count of the calls made so far
HumanizeCents_Seeded(i, time, humanize) ==
    LET vibratoRate == 4500 + 20 * humanize
        vibrato     == SinTurn(JsRound(vibratoRate * time, 10))
        seeded      == i + 7 * Len(returned)
        drift       == JsRound(SinTurn(JsRound(seeded * 1591549, 1000))
                               * CosTurn(JsRound(seeded * 588873, 1000)), FxOne)
    IN  JsRound(vibrato * 15 * humanize + drift * 30 * humanize, FxOne * 100)

\* vibrato + drift of frame i, in cents (humanize in percent, time in ms):
\*   sin(2 pi vibratoRate time) * vibratoDepth / 100
\*   + sin(i * 0.1) * cos(i * 0.037) * maxHumanizeCents / 100
HumanizeCents(i, time, humanize) ==
    LET vibratoRate == 4500 + 20 * humanize                 \* mHz: 4.5 + humanizeAmount * 2
        vibrato     == SinTurn(JsRound(vibratoRate * time, 10))
        drift       == JsRound(SinTurn(JsRound(i * 1591549, 1000))
                               * CosTurn(JsRound(i * 588873, 1000)), FxOne)
    IN  JsRound(vibrato * 15 * humanize + drift * 30 * humanize, FxOne * 100)

\* variant: no frame skipped, unvoiced frames corrected like the others
SkipsFrame_Never(frame) == FALSE

\* if (!frame.voiced || frame.frequency <= 0) { targets[i] = 0; continue }
SkipsFrame(frame) == ~frame.voiced \/ frame.frequency <= 0

\* variant: alpha * targetMidi - currentCorrectedMidi, the parentheses left out
Converge_TargetOnly(current, targetMidi, alpha) ==
    current + (JsRound(alpha * targetMidi, FxOne) - current)

\* currentCorrectedMidi += alpha * (targetMidi - currentCorrectedMidi), in cents
Converge(current, targetMidi, alpha) ==
    current + JsRound(alpha * (targetMidi - current), FxOne)

\* the loop over the frames, carrying currentCorrectedMidi (cents) and initialized;
\* for each frame the target written and currentCorrectedMidi after the iteration
RECURSIVE TargetLoop(_, _, _, _, _, _)
TargetLoop(frames, i, current, initialized, alpha, humanize) ==
    IF i >= Len(frames) THEN <<>>
    ELSE LET frame == At(frames, i)
         IN  IF SkipsFrame(frame)
             THEN <<[target |-> 0, current |-> current]>>
                  \o TargetLoop(frames, i + 1, current, initialized, alpha, humanize)
             ELSE LET originalMidi == frequencyToMidi(frame.frequency)
                      targetMidi   == MidiScale * RoundMidi(originalMidi)
                      start        == IF initialized THEN current ELSE targetMidi
                      corrected    == Converge(start, targetMidi, alpha)
                      humanized    == IF humanize > 0
                                      THEN corrected + HumanizeCents(i, frame.time, humanize)
                                      ELSE corrected
                  IN  <<[target |-> midiToFrequency(humanized), current |-> corrected]>>
                      \o TargetLoop(frames, i + 1, corrected, TRUE, alpha, humanize)

\* the iterations of the loop of computeTargetPitches
TargetTrace(frames, sr, hop, p) ==
    TargetLoop(frames, 0, 0, FALSE, Alpha(sr, hop, p.retuneSpeed), p.humanize)

computeTargetPitches(frames, sr, hop, p) ==
    LET trace == TargetTrace(frames, sr, hop, p)
    IN  [k \in 1..Len(trace) |-> trace[k].target]

----------------------------------------------------------------------------
(* pitchCorrection: findPitchMarks *)

\* the first index j in [j, hi) whose |signal[j]| is strictly above best.val
RECURSIVE ArgMaxAbs(_, _, _, _)
ArgMaxAbs(sig, j, hi, best) ==
    IF j >= hi THEN best.idx
    ELSE IF Abs(At(sig, j)) > best.val
         THEN ArgMaxAbs(sig, j + 1, hi, [idx |-> j, val |-> Abs(At(sig, j))])
         ELSE ArgMaxAbs(sig, j + 1, hi, best)

\* while (nextMark < frameEnd && nextMark < signal.length)
RECURSIVE PlaceMarks(_, _, _, _, _)
PlaceMarks(sig, marks, nextMark, period, frameEnd) ==
    IF nextMark < frameEnd /\ nextMark < Len(sig)
    THEN LET searchRadius == FloorDiv(period, 4)
             bestPos      == ArgMaxAbs(sig, Max(0, nextMark - searchRadius),
                                       Min(Len(sig), nextMark + searchRadius),
                                       [idx |-> nextMark, val |-> -1])
         IN  PlaceMarks(sig, Append(marks, bestPos), bestPos + period, period, frameEnd)
    ELSE marks

\* variant: an anchor pushed in every voiced frame
NeedsAnchor_Always(marks) == TRUE

\* if (marks.length === 0): the anchor is searched once, for the first voiced frame
NeedsAnchor(marks) == Len(marks) = 0

\* the body of the loop for frame i
MarkFrame(sig, marks, i, frame, sr, hop) ==
    IF ~frame.voiced \/ frame.frequency <= 0 THEN marks
    ELSE LET period     == JsRound(sr * FreqScale, frame.frequency)
             frameStart == i * hop
             frameEnd   == Min(frameStart + hop, Len(sig))
             anchored   == IF NeedsAnchor(marks)
                           THEN Append(marks,
                                       ArgMaxAbs(sig, frameStart,
                                                 Min(frameStart + period, Len(sig)),
                                                 [idx |-> frameStart, val |-> -1]))
                           ELSE marks
             lastMark   == anchored[Len(anchored)]
         IN  IF lastMark + period < frameEnd + period
             THEN PlaceMarks(sig, anchored, lastMark + period, period, frameEnd)
             ELSE anchored

RECURSIVE MarkLoop(_, _, _, _, _, _)
MarkLoop(sig, frames, i, marks, sr, hop) ==
    IF i >= Len(frames) THEN marks
    ELSE MarkLoop(sig, frames, i + 1, MarkFrame(sig, marks, i, At(frames, i), sr, hop), sr, hop)

findPitchMarks(sig, frames, sr, hop) == MarkLoop(sig, frames, 0, <<>>, sr, hop)

----------------------------------------------------------------------------
(* pitchCorrection: psolaShift *)

PosScale == 10^3       \* the position pos of the output mark loop, in 1/1000 sample

\* getFrameIndex, for a position in 1/PosScale sample
getFrameIndex(samplePos, nFrames, hop) ==
    Min(nFrames - 1, Max(0, FloorDiv(samplePos, hop * PosScale)))

\* variant: `continue` in an unvoiced region without advancing pos
AdvanceUnvoiced_Stay(pos, hop) == pos

\* unvoiced region: pos += hopSize
AdvanceUnvoiced(pos, hop) == pos + hop * PosScale

\* voiced region: pos += sampleRate / targetFreq
AdvanceVoiced(pos, sr, targetFreq) == pos + JsRound(sr * FreqScale * PosScale, targetFreq)

\* variant: the mark pushed without the test of pos
KeepsMark_Always(pos, n) == TRUE

\* if (pos < signal.length) outputMarks.push(Math.round(pos))
KeepsMark(pos, n) == pos < n * PosScale

\* while (pos < signal.length): the output marks pushed after the first
RECURSIVE OutputMarkLoop(_, _, _, _, _, _)
OutputMarkLoop(pos, n, nFrames, targetFreqs, sr, hop) ==
    IF pos < n * PosScale
    THEN LET targetFreq == At(targetFreqs, getFrameIndex(pos, nFrames, hop))
         IN  IF targetFreq <= 0
             THEN OutputMarkLoop(AdvanceUnvoiced(pos, hop), n, nFrames, targetFreqs, sr, hop)
             ELSE LET next == AdvanceVoiced(pos, sr, targetFreq)
                  IN  (IF KeepsMark(next, n) THEN <<JsRound(next, PosScale)>> ELSE <<>>)
                      \o OutputMarkLoop(next, n, nFrames, targetFreqs, sr, hop)
    ELSE <<>>

\* variant: the search left as soon as a mark is not closer (dist >= minDist)
RECURSIVE NearestLoop_BreakOnTie(_, _, _, _)
NearestLoop_BreakOnTie(outPos, pitchMarks, j, st) ==
    IF j >= Len(pitchMarks) THEN st
    ELSE LET dist == Abs(outPos - At(pitchMarks, j))
         IN  IF dist < st.minDist
             THEN NearestLoop_BreakOnTie(outPos, pitchMarks, j + 1,
                                         [minDist |-> dist, nearest |-> At(pitchMarks, j),
                                          idx |-> j])
             ELSE st

\* the search for the nearest input mark, from index j on
RECURSIVE NearestLoop(_, _, _, _)
NearestLoop(outPos, pitchMarks, j, st) ==
    IF j >= Len(pitchMarks) THEN st
    ELSE LET dist == Abs(outPos - At(pitchMarks, j))
         IN  IF dist < st.minDist
             THEN NearestLoop(outPos, pitchMarks, j + 1,
                              [minDist |-> dist, nearest |-> At(pitchMarks, j), idx |-> j])
             ELSE IF dist > st.minDist THEN st
             ELSE NearestLoop(outPos, pitchMarks, j + 1, st)

\* the Hanning window 0.5 * (1 - cos(2 pi t)), t = (j + halfGrain) / grainSize, in 1/FxOne
Hanning(j, halfGrain, grainSize) ==
    JsRound(FxOne - CosTurn(JsRound((j + halfGrain) * TurnScale, grainSize)), 2)

\* one grain overlap-added: for j in [-halfGrain, halfGrain), inIdx = nearest + j and
\* outIdx = outPos + j, both inside the signal; `covered` counts, for each index, the
\* grains that added to it, and `chosen` lists nearestInputMark of each output mark
\* (both kept for the claims, the code has no such buffers)
AddGrain(sig, acc, nearest, outPos, origPeriod) ==
    LET grainSize == origPeriod * 2
        halfGrain == origPeriod
        n         == Len(sig)
        Covered(k) == /\ k - outPos >= -halfGrain /\ k - outPos < halfGrain
                      /\ nearest + (k - outPos) >= 0 /\ nearest + (k - outPos) < n
    IN  [output   |-> [k \in 1..n |->
                         IF Covered(k - 1)
                         THEN acc.output[k] + At(sig, nearest + (k - 1 - outPos))
                                              * Hanning(k - 1 - outPos, halfGrain, grainSize)
                         ELSE acc.output[k]],
         envelope |-> [k \in 1..n |->
                         IF Covered(k - 1)
                         THEN acc.envelope[k] + Hanning(k - 1 - outPos, halfGrain, grainSize)
                         ELSE acc.envelope[k]],
         covered  |-> [k \in 1..n |->
                         IF Covered(k - 1) THEN acc.covered[k] + 1 ELSE acc.covered[k]],
         chosen   |-> acc.chosen,
         inputMarkIdx |-> acc.inputMarkIdx]

\* the loop over the output marks, carrying inputMarkIdx and the two buffers
RECURSIVE GrainLoop(_, _, _, _, _, _, _)
GrainLoop(sig, pitchMarks, frames, outputMarks, i, acc, geo) ==
    IF i >= Len(outputMarks) THEN acc
    ELSE LET outPos   == At(outputMarks, i)
             found    == NearestLoop(outPos, pitchMarks, acc.inputMarkIdx,
                                     [minDist |-> Abs(outPos - At(pitchMarks, 0)),
                                      nearest |-> At(pitchMarks, 0),
                                      idx     |-> acc.inputMarkIdx])
             frameIdx == getFrameIndex(found.nearest * PosScale, Len(frames), geo.hop)
             origFreq == At(frames, frameIdx).frequency
             moved    == [acc EXCEPT !.inputMarkIdx = found.idx,
                                     !.chosen = Append(@, found.nearest)]
         IN  IF origFreq <= 0
             THEN GrainLoop(sig, pitchMarks, frames, outputMarks, i + 1, moved, geo)
             ELSE GrainLoop(sig, pitchMarks, frames, outputMarks, i + 1,
                            AddGrain(sig, moved, found.nearest, outPos,
                                     JsRound(geo.sr * FreqScale, origFreq)),
                            geo)

\* variant: the division guarded, the fallback to the input sample left out
Normalize_NoFallback(sig, acc) ==
    [k \in 1..Len(sig) |->
        IF 1000 * acc.envelope[k] > FxOne
        THEN JsRound(acc.output[k], acc.envelope[k])
        ELSE acc.output[k]]

\* output[i] /= envelope[i] where envelope[i] > 0.001, else output[i] = signal[i]
Normalize(sig, acc) ==
    [k \in 1..Len(sig) |->
        IF 1000 * acc.envelope[k] > FxOne
        THEN JsRound(acc.output[k], acc.envelope[k])
        ELSE sig[k]]

\* const outputMarks = [pitchMarks[0]], then the marks of the while loop
OutputMarks(sig, pitchMarks, frames, targetFreqs, sr, hop) ==
    <<At(pitchMarks, 0)>>
    \o OutputMarkLoop(At(pitchMarks, 0) * PosScale, Len(sig), Len(frames), targetFreqs,
                      sr, hop)

\* the buffers output and envelope after the loop over the output marks
GrainBuffers(sig, pitchMarks, frames, targetFreqs, sr, hop) ==
    LET zero == [k \in 1..Len(sig) |-> 0]
    IN  GrainLoop(sig, pitchMarks, frames,
                  OutputMarks(sig, pitchMarks, frames, targetFreqs, sr, hop), 0,
                  [output |-> zero, envelope |-> zero, covered |-> zero,
                   chosen |-> <<>>, inputMarkIdx |-> 0],
                  [sr |-> sr, hop |-> hop])

\* psolaShift past its early return: output marks, grains, normalisation
Resynthesize(sig, pitchMarks, frames, targetFreqs, sr, hop) ==
    Normalize(sig, GrainBuffers(sig, pitchMarks, frames, targetFreqs, sr, hop))

\* variant: the early return without output.set(signal), a buffer of zeros
psolaShift_NoCopy(sig, pitchMarks, frames, targetFreqs, sr, hop) ==
    IF Len(pitchMarks) < 2 THEN [k \in 1..Len(sig) |-> 0]
    ELSE Resynthesize(sig, pitchMarks, frames, targetFreqs, sr, hop)

\* if (pitchMarks.length < 2) { output.set(signal); return output }
psolaShift(sig, pitchMarks, frames, targetFreqs, sr, hop) ==
    IF Len(pitchMarks) < 2 THEN sig
    ELSE Resynthesize(sig, pitchMarks, frames, targetFreqs, sr, hop)

----------------------------------------------------------------------------
(* pitchCorrection: correctPitch, hardTune *)

\* correctPitch's hopSize = 256 and windowSize = 2048, divided by Downscale: the
\* model analyses signals Downscale times shorter than the source's windows need
Downscale  == 64
hopSize    == 256 \div Downscale
windowSize == 2048 \div Downscale

\* variant: the output buffer allocated one sample short
Blend_DropLast(sig, corrected, tuneAmount) ==
    [i \in 1..(Len(sig) - 1) |->
        JsRound(corrected[i] * tuneAmount + sig[i] * (100 - tuneAmount), 100)]

\* variant: wetAmount and dryAmount exchanged
Blend_Swapped(sig, corrected, tuneAmount) ==
    [i \in 1..Len(sig) |->
        JsRound(corrected[i] * (100 - tuneAmount) + sig[i] * tuneAmount, 100)]

\* Step 6: output[i] = corrected[i] * wetAmount + inputSignal[i] * dryAmount
Blend(sig, corrected, tuneAmount) ==
    [i \in 1..Len(sig) |->
        JsRound(corrected[i] * tuneAmount + sig[i] * (100 - tuneAmount), 100)]

\* variant: the bypass taken only for tuneAmount < 0
Bypassed_Negative(p) == p.tuneAmount < 0

\* if (params.tuneAmount <= 0) return new Float32Array(inputSignal)
Bypassed(p) == p.tuneAmount <= 0

\* correctPitch: the returned buffer with the intermediate results of the run
CorrectPitchRun(inputSignal, sr, p) ==
    IF Bypassed(p)
    THEN [output |-> inputSignal, stages |-> <<>>, frames |-> <<>>, targetFreqs |-> <<>>,
          marks |-> <<>>, corrected |-> <<>>]
    ELSE LET pitchTrack     == detectPitch(inputSignal, sr, hopSize, windowSize,
                                           DefaultThreshold, DefaultMinFreq, DefaultMaxFreq)
             smoothedFrames == smoothPitchTrack(pitchTrack.frames, DefaultMedianWindow)
             targetFreqs    == computeTargetPitches(smoothedFrames, sr, hopSize, p)
             pitchMarks     == findPitchMarks(inputSignal, smoothedFrames, sr, hopSize)
             corrected      == psolaShift(inputSignal, pitchMarks, smoothedFrames,
                                          targetFreqs, sr, hopSize)
         IN  [output      |-> Blend(inputSignal, corrected, p.tuneAmount),
              stages      |-> <<"detect", "smooth", "target", "mark", "resynth", "blend">>,
              frames      |-> smoothedFrames,
              targetFreqs |-> targetFreqs,
              marks       |-> pitchMarks,
              corrected   |-> corrected]

correctPitch(inputSignal, sr, p) == CorrectPitchRun(inputSignal, sr, p).output

\* variant: the preset with a half-wet blend
hardTune_HalfWet(inputSignal, sr) ==
    correctPitch(inputSignal, sr, [retuneSpeed |-> 0, humanize |-> 0, tuneAmount |-> 50])

hardTune(inputSignal, sr) ==
    correctPitch(inputSignal, sr, [retuneSpeed |-> 0, humanize |-> 0, tuneAmount |-> 100])

----------------------------------------------------------------------------
(* Inputs: the signals, sample rates and arguments the calls are made with *)

MaxSigLen == 20     \* longest signal handed to detectPitch
MaxPeriod == 5      \* longest period of a generated test signal
MaxAmp    == 2      \* largest sample amplitude, in steps of AmpStep
MaxHop    == 3      \* largest hopSize handed to detectPitch

\* samples are in 1/100 of full scale; the generated signals use multiples of 50
AmpStep == 5 * 10

\* sample i of a generated signal, in amplitude steps
StepOf(d, i) ==
    CASE d.kind = "zero"  -> 0
      [] d.kind = "dc"    -> d.amp
      [] d.kind = "pulse" -> IF i % d.period = 0 THEN d.amp
                             ELSE IF i % d.period = d.period \div 2 THEN -d.amp
                             ELSE 0
      [] d.kind = "saw"   -> (i % d.period) - (d.period \div 2)
      \* a pulse train whose period doubles half way
      [] d.kind = "jump"  -> LET q == IF 2 * i < d.len THEN d.period ELSE 2 * d.period
                             IN  IF i % q = 0 THEN d.amp
                                 ELSE IF i % q = q \div 2 THEN -d.amp
                                 ELSE 0
      \* a pulse train that starts at period 2 * period + 1 and, after the first
      \* sixth, runs at period: the pitch rises by more than an octave
      [] d.kind = "rise"  -> LET q == IF 6 * i < d.len THEN 2 * d.period + 1 ELSE d.period
                                 j == i + d.period + 2
                             IN  IF j % q = 0 THEN d.amp
                                 ELSE IF j % q = q \div 2 THEN -d.amp
                                 ELSE 0
      \* a pulse train silent between its first tenth and its first third
      [] d.kind = "hole"  -> IF 10 * i >= d.len /\ 3 * i < d.len THEN 0
                             ELSE IF i % d.period = 0 THEN d.amp
                             ELSE IF i % d.period = d.period \div 2 THEN -d.amp
                             ELSE 0
      \* a pulse train with a silent middle third
      [] d.kind = "gap"   -> IF 3 * i >= d.len /\ 3 * i < 2 * d.len THEN 0
                             ELSE IF i % d.period = 0 THEN d.amp
                             ELSE IF i % d.period = d.period \div 2 THEN -d.amp
                             ELSE 0

SignalOf(d) == [i \in 1..d.len |-> AmpStep * StepOf(d, i - 1)]

Shapes ==
    { [kind |-> "zero", period |-> 1, amp |-> 0] }
    \cup { [kind |-> "dc", period |-> 1, amp |-> a] : a \in 1..MaxAmp }
    \cup { [kind |-> "pulse", period |-> q, amp |-> a] : q \in 2..MaxPeriod, a \in 1..MaxAmp }
    \cup { [kind |-> "saw", period |-> q, amp |-> 1] : q \in 3..MaxPeriod }

SignalsUpTo(maxLen) ==
    { SignalOf([kind |-> sh.kind, period |-> sh.period, amp |-> sh.amp, len |-> n]) :
        sh \in Shapes, n \in 0..maxLen }

DetectWindows == {3, 4, 8, 12}
DetectRates == {240, 480, 720}

NoTrack == [frames |-> <<>>, sampleRate |-> 0, hopSize |-> 0, medianPitch |-> 0]
NoRun == [output |-> <<>>, stages |-> <<>>, frames |-> <<>>, targetFreqs |-> <<>>,
          marks |-> <<>>, corrected |-> <<>>]
NoParams == [retuneSpeed |-> 0, humanize |-> 0, tuneAmount |-> 0]
NoDetectArgs == [hopSize |-> 0, windowSize |-> 0, threshold |-> 0, minFreq |-> 0, maxFreq |-> 0]

\* null, for the fields of the App component that hold a file, a URL or a result
Null == "null"

\* the App component as useState creates it: nothing selected, nothing in flight
AppMounted ==
    /\ audioFile = Null
    /\ isRecording = FALSE
    /\ recorder = "inactive"
    /\ state = [isAnalyzing |-> FALSE, analysis |-> Null, expertResultUrl |-> Null]
    /\ cloneState = [referenceVoice |-> Null, isGenerating |-> FALSE,
                     processingStep |-> "", resultAudioUrl |-> Null]
    /\ requests = <<>>

AllZero(sig) == \A i \in 1..Len(sig) : sig[i] = 0

\* the frames of a track, by value (dereferenced)
FramesOf(h, refs) == [i \in 1..Len(refs) |-> h[refs[i]]]

----------------------------------------------------------------------------
(* Specification SpecDetect: one call of detectPitch *)

InitDetect ==
    /\ AppMounted
    /\ signal \in SignalsUpTo(MaxSigLen)
    /\ sampleRate \in DetectRates
    /\ detectArgs \in [hopSize : 1..MaxHop, windowSize : DetectWindows,
                       threshold : {DefaultThreshold},
                       minFreq : {DefaultMinFreq}, maxFreq : {DefaultMaxFreq}]
    /\ medianWindowSize = 0
    /\ params = NoParams
    /\ heap = <<>>
    /\ track = NoTrack
    /\ smoothed = <<>>
    /\ before = <<>>
    /\ returned = <<>>
    /\ output = <<>>
    /\ hardOutput = <<>>
    /\ run = NoRun
    /\ pc = "start"

\* track = detectPitch(signal, sampleRate, hopSize, windowSize, threshold, minFreq, maxFreq)
DetectPitchCall ==
    /\ pc = "start"
    /\ LET t == detectPitch(signal, sampleRate, detectArgs.hopSize, detectArgs.windowSize,
                            detectArgs.threshold, detectArgs.minFreq, detectArgs.maxFreq)
       IN  /\ heap' = t.frames
           /\ track' = [t EXCEPT !.frames = [i \in 1..Len(t.frames) |-> i]]
    /\ pc' = "detected"
    /\ UNCHANGED appVars
    /\ UNCHANGED <<signal, sampleRate, detectArgs, medianWindowSize, params, smoothed,
                   before, returned, output, hardOutput, run>>

NextDetect == DetectPitchCall

SpecDetect == InitDetect /\ [][NextDetect]_vars

----------------------------------------------------------------------------
(* Claims about detectPitch, checked under SpecDetect *)

\* C3 (as stated): for signal.length >= windowSize and hopSize >= 1 the track has
\* floor((signal.length - windowSize) / hopSize) + 1 frames, the position where the
\* window ends exactly at the end of the signal included.
C3_FrameCountFloorPlusOne ==
    (pc = "detected" /\ Len(signal) >= detectArgs.windowSize /\ detectArgs.hopSize >= 1)
    => Len(track.frames)
         = FloorDiv(Len(signal) - detectArgs.windowSize, detectArgs.hopSize) + 1

\* C4: a signal shorter than windowSize gives a track with zero frames and
\* medianPitch = 0 (the call returns: no read outside the signal is evaluated).
C4_ShortSignalNoFrames ==
    (pc = "detected" /\ Len(signal) < detectArgs.windowSize)
    => (Len(track.frames) = 0 /\ track.medianPitch = 0)

C4_Witness ==
    pc = "detected" /\ Len(signal) > 0 /\ Len(signal) < detectArgs.windowSize

----------------------------------------------------------------------------
(* Specification SpecBand: detectPitch called with a threshold and a search  *)
(* band of the caller's choice                                                *)

\* thresholds in percent: none, the default, the largest with 2 * threshold <= 1,
\* and one above it
BandThresholds == {0, DefaultThreshold, 50, 60}

\* the default band, and a narrow one that leaves few or no lags to search
BandChoices ==
    { [minFreq |-> DefaultMinFreq, maxFreq |-> DefaultMaxFreq],
      [minFreq |-> 200, maxFreq |-> 240] }

InitBand ==
    /\ AppMounted
    /\ signal \in SignalsUpTo(MaxSigLen)
    /\ sampleRate \in DetectRates
    /\ \E w \in {8, 12}, th \in BandThresholds, b \in BandChoices :
          detectArgs = [hopSize |-> MaxHop, windowSize |-> w, threshold |-> th,
                        minFreq |-> b.minFreq, maxFreq |-> b.maxFreq]
    /\ medianWindowSize = 0
    /\ params = NoParams
    /\ heap = <<>>
    /\ track = NoTrack
    /\ smoothed = <<>>
    /\ before = <<>>
    /\ returned = <<>>
    /\ output = <<>>
    /\ hardOutput = <<>>
    /\ run = NoRun
    /\ pc = "start"

NextBand == DetectPitchCall

SpecBand == InitBand /\ [][NextBand]_vars

\* C15 (as stated): in every frame returned by detectPitch, for any threshold and
\* search band, frequency = 0 if and only if voiced = FALSE.
C15_FrequencyZeroIffUnvoiced ==
    pc = "detected" =>
        \A i \in 1..Len(track.frames) :
            (heap[track.frames[i]].frequency = 0) <=> ~heap[track.frames[i]].voiced

\* C15 (amended): an unvoiced frame has frequency 0 for any threshold and search
\* band; a voiced frame has a frequency above 0 when threshold <= 0.5.
C15_FrequencyAgreesWithVoicing ==
    pc = "detected" =>
        \A i \in 1..Len(track.frames) :
            /\ ~heap[track.frames[i]].voiced => heap[track.frames[i]].frequency = 0
            /\ (detectArgs.threshold <= 50 /\ heap[track.frames[i]].voiced)
                  => heap[track.frames[i]].frequency > 0

\* a track analysed with threshold 0.5 that has a voiced and an unvoiced frame
C15_Witness ==
    /\ pc = "detected"
    /\ detectArgs.threshold = 50
    /\ \E i, j \in 1..Len(track.frames) :
          /\ heap[track.frames[i]].voiced /\ heap[track.frames[i]].frequency > 0
          /\ ~heap[track.frames[j]].voiced /\ heap[track.frames[j]].frequency = 0

\* the voiced frames of the returned track (1-based positions)
VoicedFrames == { i \in 1..Len(track.frames) : heap[track.frames[i]].voiced }

FreqOf(i) == heap[track.frames[i]].frequency

\* C11: medianPitch is the element at index floor(n / 2) of the ascending-sorted
\* frequencies of the n voiced frames (at most floor(n / 2) of them are smaller and
\* more than floor(n / 2) are not larger), and 0 when no frame is voiced.
C11_MedianIsMiddleOfSorted ==
    pc = "detected" =>
        LET n == Cardinality(VoicedFrames)
            m == track.medianPitch
        IN  IF n = 0 THEN m = 0
            ELSE /\ \E i \in VoicedFrames : FreqOf(i) = m
                 /\ Cardinality({ i \in VoicedFrames : FreqOf(i) < m }) <= FloorDiv(n, 2)
                 /\ Cardinality({ i \in VoicedFrames : FreqOf(i) <= m }) > FloorDiv(n, 2)

\* an even number of voiced frames, not in ascending order, whose two middle
\* frequencies differ
C11_Witness ==
    /\ pc = "detected"
    /\ Cardinality(VoicedFrames) >= 4
    /\ Cardinality(VoicedFrames) % 2 = 0
    /\ \E i, j \in VoicedFrames : i < j /\ FreqOf(i) > FreqOf(j)
    /\ Cardinality({ i \in VoicedFrames : FreqOf(i) < track.medianPitch })
          = FloorDiv(Cardinality(VoicedFrames), 2)

----------------------------------------------------------------------------
(* Specification Spec: correctPitch and hardTune called on the same signal *)

MaxExtraHops == 4   \* hops by which the longest signal exceeds one analysis window

\* pulse periods that fall inside the detection band at the rates below
PipePeriods == {4, 6}
PipeRates == {480, 720}

PipeShapes ==
    { [kind |-> "zero", period |-> 1, amp |-> 0],
      [kind |-> "dc", period |-> 1, amp |-> 1],
      [kind |-> "saw", period |-> 5, amp |-> 1] }
    \cup { [kind |-> k, period |-> q, amp |-> MaxAmp] :
             k \in {"pulse", "jump", "gap"}, q \in PipePeriods }

\* lengths around one analysis window, and one of 1 + MaxExtraHops frames
PipeLengths ==
    {0, windowSize - 1, windowSize}
    \cup { windowSize + hopSize * k + 1 : k \in {0, MaxExtraHops} }

PipeSignals ==
    { SignalOf([kind |-> sh.kind, period |-> sh.period, amp |-> sh.amp, len |-> n]) :
        sh \in PipeShapes, n \in PipeLengths }

\* CorrectionParams: retuneSpeed in ms, humanize and tuneAmount in percent
PipeParams ==
    { [retuneSpeed |-> 0,  humanize |-> 0,  tuneAmount |-> 100],
      [retuneSpeed |-> 0,  humanize |-> 0,  tuneAmount |-> 0],
      [retuneSpeed |-> 50, humanize |-> 50, tuneAmount |-> -50],
      [retuneSpeed |-> 0,  humanize |-> 0,  tuneAmount |-> 50],
      [retuneSpeed |-> 50, humanize |-> 50, tuneAmount |-> 100] }

Init ==
    /\ AppMounted
    /\ signal \in PipeSignals
    /\ sampleRate \in PipeRates
    /\ params \in PipeParams
    /\ detectArgs = NoDetectArgs
    /\ medianWindowSize = 0
    /\ heap = <<>>
    /\ track = NoTrack
    /\ smoothed = <<>>
    /\ before = <<>>
    /\ returned = <<>>
    /\ output = <<>>
    /\ hardOutput = <<>>
    /\ run = NoRun
    /\ pc = "start"

\* output = correctPitch(signal, sampleRate, params)
CorrectPitchCall ==
    /\ pc \in {"start", "hard"}
    /\ run' = CorrectPitchRun(signal, sampleRate, params)
    /\ output' = run'.output
    /\ pc' = IF pc = "start" THEN "corrected" ELSE "both"
    /\ UNCHANGED appVars
    /\ UNCHANGED <<signal, sampleRate, detectArgs, medianWindowSize, params, heap, track,
                   smoothed, before, returned, hardOutput>>

\* hardOutput = hardTune(signal, sampleRate)
HardTuneCall ==
    /\ pc \in {"start", "corrected"}
    /\ hardOutput' = hardTune(signal, sampleRate)
    /\ pc' = IF pc = "start" THEN "hard" ELSE "both"
    /\ UNCHANGED appVars
    /\ UNCHANGED <<signal, sampleRate, detectArgs, medianWindowSize, params, heap, track,
                   smoothed, before, returned, output, run>>

Next == CorrectPitchCall \/ HardTuneCall

Spec == Init /\ [][Next]_vars

----------------------------------------------------------------------------
(* Claims about correctPitch and hardTune, checked under Spec *)

\* correctPitch has returned
Corrected == pc \in {"corrected", "both"}

HardPreset == [retuneSpeed |-> 0, humanize |-> 0, tuneAmount |-> 100]

\* C1: correctPitch called with tuneAmount <= 0 returns a buffer equal to the input
\* sample for sample and runs none of the stages (detection, smoothing, target
\* computation, epoch marking, resynthesis).
C1_BypassCopiesInput ==
    (Corrected /\ params.tuneAmount <= 0) => (output = signal /\ run.stages = <<>>)

\* a bypassed call on a signal that hardTune, which runs the stages, does change
C1_Witness ==
    /\ pc = "both"
    /\ params.tuneAmount <= 0
    /\ hardOutput # signal
    /\ output = signal

\* C2: hardTune(signal, sampleRate) returns the same output as correctPitch(signal,
\* sampleRate, {retuneSpeed: 0, humanize: 0, tuneAmount: 100}).
C2_HardTuneIsPreset ==
    (pc = "both" /\ params = HardPreset) => hardOutput = output

\* both calls made with the preset on a signal the correction changes
C2_Witness ==
    /\ pc = "both"
    /\ params = HardPreset
    /\ Len(run.marks) >= 2
    /\ output # signal
    /\ hardOutput = output

\* C6: when epoch marking yields fewer than 2 marks, resynthesis returns the input
\* sample for sample, and so does correctPitch for every tuneAmount in (0, 100].
C6_FewMarksPassThrough ==
    (Corrected /\ params.tuneAmount > 0 /\ params.tuneAmount <= 100 /\ Len(run.marks) < 2)
        => (run.corrected = signal /\ output = signal)

\* a half-wet run that found exactly one mark in a signal that is not silent
C6_Witness ==
    /\ Corrected
    /\ params.tuneAmount = 50
    /\ Len(run.marks) = 1
    /\ ~AllZero(signal)
    /\ output = signal

\* C7: the buffer returned by correctPitch has as many samples as the input, and
\* so has the intermediate buffer returned by psolaShift.
C7_LengthPreserved ==
    Corrected => /\ Len(output) = Len(signal)
                 /\ run.stages # <<>> => Len(run.corrected) = Len(signal)

\* a run that resynthesised the signal from two or more marks and changed it
C7_Witness ==
    /\ Corrected
    /\ Len(run.marks) >= 2
    /\ run.corrected # signal
    /\ Len(run.corrected) = Len(signal)
    /\ Len(output) = Len(signal)

\* C14: for tuneAmount > 0, output[i] = corrected[i] * (tuneAmount / 100)
\* + original[i] * (1 - tuneAmount / 100) for every i (to the rounding of one stored
\* sample), and at tuneAmount = 100 the output is the resynthesized signal.
C14_BlendIsWetDryMix ==
    (Corrected /\ params.tuneAmount > 0) =>
        /\ \A i \in 1..Len(signal) :
              2 * Abs(100 * output[i] - (run.corrected[i] * params.tuneAmount
                                         + signal[i] * (100 - params.tuneAmount))) <= 100
        /\ params.tuneAmount = 100 => output = run.corrected

\* a half-wet run whose output lies strictly between the input and the
\* resynthesized signal at some sample
C14_Witness ==
    /\ Corrected
    /\ params.tuneAmount = 50
    /\ \E i \in 1..Len(signal) :
          \/ signal[i] < output[i] /\ output[i] < run.corrected[i]
          \/ run.corrected[i] < output[i] /\ output[i] < signal[i]

----------------------------------------------------------------------------
(* Specification SpecRepeat: correctPitch invoked repeatedly on one signal,  *)
(* with parameters chosen afresh for each invocation                         *)

MaxRepeats == 3     \* invocations of correctPitch in one behaviour

LongestLength == windowSize + hopSize * MaxExtraHops + 1

RepeatSignals ==
    { SignalOf([kind |-> k, period |-> q, amp |-> MaxAmp, len |-> LongestLength]) :
        k \in {"pulse", "jump"}, q \in PipePeriods }

RepeatParams ==
    { [retuneSpeed |-> 0,  humanize |-> 0,   tuneAmount |-> 100],
      [retuneSpeed |-> 20, humanize |-> 100, tuneAmount |-> 100],
      [retuneSpeed |-> 50, humanize |-> 50,  tuneAmount |-> 50] }

InitRepeat ==
    /\ AppMounted
    /\ signal \in RepeatSignals
    /\ sampleRate \in PipeRates
    /\ params = NoParams
    /\ detectArgs = NoDetectArgs
    /\ medianWindowSize = 0
    /\ heap = <<>>
    /\ track = NoTrack
    /\ smoothed = <<>>
    /\ before = <<>>
    /\ returned = <<>>
    /\ output = <<>>
    /\ hardOutput = <<>>
    /\ run = NoRun
    /\ pc = "start"

\* output = correctPitch(signal, sampleRate, p), recorded with its arguments
RepeatCorrectPitchCall ==
    /\ Len(returned) < MaxRepeats
    /\ \E p \in RepeatParams :
          /\ params' = p
          /\ run' = CorrectPitchRun(signal, sampleRate, p)
    /\ output' = run'.output
    /\ returned' = Append(returned, [signal |-> signal, sampleRate |-> sampleRate,
                                     params |-> params', output |-> output'])
    /\ pc' = "corrected"
    /\ UNCHANGED appVars
    /\ UNCHANGED <<signal, sampleRate, detectArgs, medianWindowSize, heap, track,
                   smoothed, before, hardOutput>>

NextRepeat == RepeatCorrectPitchCall

SpecRepeat == InitRepeat /\ [][NextRepeat]_vars

----------------------------------------------------------------------------
(* Specification SpecSteps: one call of correctPitch, one loop iteration per  *)
(* step for the three loops whose trip count depends on the data: the frame   *)
(* loop of detectPitch, the mark loops of findPitchMarks and the output mark  *)
(* loop of psolaShift.  `run` holds the locals of the call, and the number    *)
(* of steps executed so far.                                                  *)

StepSignals ==
    { SignalOf([kind |-> "zero", period |-> 1, amp |-> 0, len |-> LongestLength]),
      SignalOf([kind |-> "pulse", period |-> 4, amp |-> MaxAmp, len |-> windowSize]) }
    \cup { SignalOf([kind |-> k, period |-> q, amp |-> MaxAmp, len |-> LongestLength]) :
             k \in {"pulse", "jump", "gap"}, q \in PipePeriods }

StepParams ==
    { [retuneSpeed |-> 0,  humanize |-> 0,  tuneAmount |-> 100],
      [retuneSpeed |-> 0,  humanize |-> 0,  tuneAmount |-> 0],
      [retuneSpeed |-> 50, humanize |-> 50, tuneAmount |-> 50] }

\* the locals of correctPitch and of the functions it calls, before the call
NoLocals ==
    [center |-> 0, frames |-> <<>>, targetFreqs |-> <<>>, i |-> 0, marks |-> <<>>,
     period |-> 0, frameEnd |-> 0, nextMark |-> 0, pos |-> 0, outputMarks |-> <<>>,
     corrected |-> <<>>, steps |-> 0]

InitSteps ==
    /\ AppMounted
    /\ signal \in StepSignals
    /\ sampleRate \in PipeRates
    /\ params \in StepParams
    /\ detectArgs = NoDetectArgs
    /\ medianWindowSize = 0
    /\ heap = <<>>
    /\ track = NoTrack
    /\ smoothed = <<>>
    /\ before = <<>>
    /\ returned = <<>>
    /\ output = <<>>
    /\ hardOutput = <<>>
    /\ run = NoLocals
    /\ pc = "start"

StepFrame == <<signal, sampleRate, params, detectArgs, medianWindowSize, heap, track,
               smoothed, before, returned, hardOutput, appVars>>

\* entry of correctPitch: the bypass, or on to detectPitch
StepEnter ==
    /\ pc = "start"
    /\ IF Bypassed(params)
       THEN output' = signal /\ pc' = "done"
       ELSE output' = output /\ pc' = "detect"
    /\ run' = [run EXCEPT !.steps = @ + 1]
    /\ UNCHANGED StepFrame

\* one test of detectPitch's loop condition: a frame and center += hopSize, or the
\* loop exit followed by smoothPitchTrack and computeTargetPitches
StepDetect ==
    /\ pc = "detect"
    /\ IF run.center + windowSize < Len(signal)
       THEN /\ run' = [run EXCEPT !.steps = @ + 1,
                         !.frames = Append(@, AnalyseFrame(signal, sampleRate, run.center,
                                                          windowSize, DefaultThreshold,
                                                          DefaultMinFreq, DefaultMaxFreq)),
                         !.center = @ + hopSize]
            /\ pc' = "detect"
       ELSE /\ LET smoothedFrames == smoothPitchTrack(run.frames, DefaultMedianWindow)
               IN  run' = [run EXCEPT !.steps = @ + 1,
                             !.frames = smoothedFrames,
                             !.targetFreqs = computeTargetPitches(smoothedFrames, sampleRate,
                                                                  hopSize, params)]
            /\ pc' = "mark"
    /\ UNCHANGED <<output, StepFrame>>

\* one test of findPitchMarks' frame loop: skip an unvoiced frame, or anchor and
\* enter the placement loop of a voiced one; at the exit, psolaShift's early return
\* or the start of its output mark loop
StepMark ==
    /\ pc = "mark"
    /\ IF run.i < Len(run.frames)
       THEN LET frame == At(run.frames, run.i)
            IN  IF ~frame.voiced \/ frame.frequency <= 0
                THEN run' = [run EXCEPT !.steps = @ + 1, !.i = @ + 1] /\ pc' = "mark"
                ELSE LET period     == JsRound(sampleRate * FreqScale, frame.frequency)
                         frameStart == run.i * hopSize
                         frameEnd   == Min(frameStart + hopSize, Len(signal))
                         anchored   == IF Len(run.marks) = 0
                                       THEN <<ArgMaxAbs(signal, frameStart,
                                                        Min(frameStart + period, Len(signal)),
                                                        [idx |-> frameStart, val |-> -1])>>
                                       ELSE run.marks
                         lastMark   == anchored[Len(anchored)]
                     IN  IF lastMark + period < frameEnd + period
                         THEN /\ run' = [run EXCEPT !.steps = @ + 1, !.marks = anchored, !.period = period,
                                                    !.frameEnd = frameEnd,
                                                    !.nextMark = lastMark + period]
                              /\ pc' = "place"
                         ELSE /\ run' = [run EXCEPT !.steps = @ + 1, !.marks = anchored, !.i = @ + 1]
                              /\ pc' = "mark"
       ELSE IF Len(run.marks) < 2
            THEN run' = [run EXCEPT !.steps = @ + 1, !.corrected = signal] /\ pc' = "blend"
            ELSE /\ run' = [run EXCEPT !.steps = @ + 1, !.outputMarks = <<At(run.marks, 0)>>,
                                       !.pos = At(run.marks, 0) * PosScale]
                 /\ pc' = "outmarks"
    /\ UNCHANGED <<output, StepFrame>>

\* one test of while (nextMark < frameEnd && nextMark < signal.length)
StepPlace ==
    /\ pc = "place"
    /\ IF run.nextMark < run.frameEnd /\ run.nextMark < Len(signal)
       THEN LET searchRadius == FloorDiv(run.period, 4)
                bestPos      == ArgMaxAbs(signal, Max(0, run.nextMark - searchRadius),
                                          Min(Len(signal), run.nextMark + searchRadius),
                                          [idx |-> run.nextMark, val |-> -1])
            IN  /\ run' = [run EXCEPT !.steps = @ + 1, !.marks = Append(@, bestPos),
                                      !.nextMark = bestPos + run.period]
                /\ pc' = "place"
       ELSE run' = [run EXCEPT !.steps = @ + 1, !.i = @ + 1] /\ pc' = "mark"
    /\ UNCHANGED <<output, StepFrame>>

\* one test of while (pos < signal.length); at the exit the grains are placed and
\* the buffer is normalised
StepOutputMark ==
    /\ pc = "outmarks"
    /\ IF run.pos < Len(signal) * PosScale
       THEN LET targetFreq == At(run.targetFreqs,
                                 getFrameIndex(run.pos, Len(run.frames), hopSize))
            IN  IF targetFreq <= 0
                THEN run' = [run EXCEPT !.steps = @ + 1, !.pos = AdvanceUnvoiced(run.pos, hopSize)]
                     /\ pc' = "outmarks"
                ELSE LET next == AdvanceVoiced(run.pos, sampleRate, targetFreq)
                     IN  /\ run' = [run EXCEPT !.steps = @ + 1,
                                      !.pos = next,
                                      !.outputMarks =
                                          IF KeepsMark(next, Len(signal))
                                          THEN Append(@, JsRound(next, PosScale)) ELSE @]
                         /\ pc' = "outmarks"
       ELSE LET zero == [k \in 1..Len(signal) |-> 0]
            IN  /\ run' = [run EXCEPT !.steps = @ + 1, !.corrected =
                             Normalize(signal,
                                       GrainLoop(signal, run.marks, run.frames,
                                                 run.outputMarks, 0,
                                                 [output |-> zero, envelope |-> zero,
                                                  covered |-> zero, chosen |-> <<>>,
                                                  inputMarkIdx |-> 0],
                                                 [sr |-> sampleRate, hop |-> hopSize]))]
                /\ pc' = "blend"
    /\ UNCHANGED <<output, StepFrame>>

\* the wet/dry mix and the return
StepBlend ==
    /\ pc = "blend"
    /\ output' = Blend(signal, run.corrected, params.tuneAmount)
    /\ pc' = "done"
    /\ run' = [run EXCEPT !.steps = @ + 1]
    /\ UNCHANGED StepFrame

NextSteps ==
    StepEnter \/ StepDetect \/ StepMark \/ StepPlace \/ StepOutputMark \/ StepBlend

SpecSteps == InitSteps /\ [][NextSteps]_vars

\* the steps a call can take at most: every loop iteration advances its loop
\* variable by at least one sample, and there are four loops and two single steps
StepBound == 4 * Len(signal) + 8

\* every iteration of the three loops moves its loop variable forward
LoopProgress ==
    /\ (pc = "detect" /\ pc' = "detect") => run'.center > run.center
    /\ (pc = "place" /\ pc' = "place") => run'.nextMark > run.nextMark
    /\ (pc = "outmarks" /\ pc' = "outmarks") => run'.pos > run.pos

\* C13: correctPitch terminates and returns a buffer: every iteration of the frame
\* loop of detectPitch, of the mark-placement loop of findPitchMarks and of the
\* output-mark loop of psolaShift makes strictly positive progress, the number of
\* steps of a call is bounded in the length of the signal, every position of the
\* call before the return has a step to take, and the call returns a buffer of the
\* input's length.
C13_Terminates ==
    /\ [][LoopProgress]_vars
    /\ [](run.steps <= StepBound)
    /\ [](pc \in {"start", "detect", "mark", "place", "outmarks", "blend", "done"})
    /\ [](pc = "done" => Len(output) = Len(signal))

\* a call about to return whose three loops all iterated, the output-mark loop
\* through an unvoiced region as well
C13_Witness ==
    /\ pc = "done"
    /\ run.center > hopSize
    /\ Len(run.marks) > 2
    /\ Len(run.outputMarks) > 2
    /\ run.pos > run.outputMarks[Len(run.outputMarks)] * PosScale + hopSize * PosScale

\* the step-by-step call returns what the operator correctPitch returns
StepsAgree == pc = "done" => output = correctPitch(signal, sampleRate, params)

----------------------------------------------------------------------------
(* Specification SpecPsola: correctPitch up to its epoch marks, then the call *)
(* of psolaShift with its buffers kept                                        *)

PsolaPeriods == {4, 5, 6}

\* one frame, three frames, and 1 + MaxExtraHops frames
PsolaLengths == { windowSize + 1 + hopSize * k : k \in {0, 2, MaxExtraHops} }

\* long enough for voiced frames before and after a run of unvoiced ones
HoleLength == windowSize + 2 * hopSize * MaxExtraHops + 1

PsolaSignals ==
    { SignalOf([kind |-> "zero", period |-> 1, amp |-> 0, len |-> LongestLength]) }
    \cup { SignalOf([kind |-> k, period |-> q, amp |-> MaxAmp, len |-> n]) :
             k \in {"pulse", "saw", "jump", "gap"}, q \in PsolaPeriods, n \in PsolaLengths }
    \cup { SignalOf([kind |-> "rise", period |-> q, amp |-> MaxAmp, len |-> LongestLength]) :
             q \in {3, 4} }
    \cup { SignalOf([kind |-> "hole", period |-> q, amp |-> MaxAmp, len |-> HoleLength]) :
             q \in {3, 4} }

PsolaParams ==
    { [retuneSpeed |-> 0,   humanize |-> 0,   tuneAmount |-> 100],
      [retuneSpeed |-> 50,  humanize |-> 50,  tuneAmount |-> 100],
      [retuneSpeed |-> 100, humanize |-> 100, tuneAmount |-> 50] }

NoBuffers ==
    [frames |-> <<>>, targetFreqs |-> <<>>, marks |-> <<>>, outputMarks |-> <<>>,
     accumulated |-> <<>>, envelope |-> <<>>, covered |-> <<>>, chosen |-> <<>>,
     corrected |-> <<>>, correctedMidi |-> <<>>]

InitPsola ==
    /\ AppMounted
    /\ signal \in PsolaSignals
    /\ sampleRate \in PipeRates
    /\ params \in PsolaParams
    /\ detectArgs = NoDetectArgs
    /\ medianWindowSize = 0
    /\ heap = <<>>
    /\ track = NoTrack
    /\ smoothed = <<>>
    /\ before = <<>>
    /\ returned = <<>>
    /\ output = <<>>
    /\ hardOutput = <<>>
    /\ run = NoBuffers
    /\ pc = "start"

\* correctPitch, steps 1 to 4: detection, smoothing, targets, epoch marks
FindPitchMarksCall ==
    /\ pc = "start"
    /\ LET pitchTrack     == detectPitch(signal, sampleRate, hopSize, windowSize,
                                         DefaultThreshold, DefaultMinFreq, DefaultMaxFreq)
           smoothedFrames == smoothPitchTrack(pitchTrack.frames, DefaultMedianWindow)
           trace          == TargetTrace(smoothedFrames, sampleRate, hopSize, params)
       IN  run' = [run EXCEPT
                     !.frames = smoothedFrames,
                     !.targetFreqs = computeTargetPitches(smoothedFrames, sampleRate,
                                                          hopSize, params),
                     !.correctedMidi = [k \in 1..Len(trace) |-> trace[k].current],
                     !.marks = findPitchMarks(signal, smoothedFrames, sampleRate, hopSize)]
    /\ pc' = "marked"
    /\ UNCHANGED appVars
    /\ UNCHANGED <<signal, sampleRate, detectArgs, medianWindowSize, params, heap, track,
                   smoothed, before, returned, output, hardOutput>>

\* correctPitch, step 5: corrected = psolaShift(inputSignal, pitchMarks, ...)
PsolaShiftCall ==
    /\ pc = "marked"
    /\ LET acc == GrainBuffers(signal, run.marks, run.frames, run.targetFreqs, sampleRate,
                               hopSize)
       IN  run' = IF Len(run.marks) < 2
                  THEN [run EXCEPT !.corrected = psolaShift(signal, run.marks, run.frames,
                                                            run.targetFreqs, sampleRate,
                                                            hopSize)]
                  ELSE [run EXCEPT
                          !.outputMarks = OutputMarks(signal, run.marks, run.frames,
                                                      run.targetFreqs, sampleRate, hopSize),
                          !.accumulated = acc.output,
                          !.envelope = acc.envelope,
                          !.covered = acc.covered,
                          !.chosen = acc.chosen,
                          !.corrected = psolaShift(signal, run.marks, run.frames,
                                                   run.targetFreqs, sampleRate, hopSize)]
    /\ pc' = "shifted"
    /\ UNCHANGED appVars
    /\ UNCHANGED <<signal, sampleRate, detectArgs, medianWindowSize, params, heap, track,
                   smoothed, before, returned, output, hardOutput>>

NextPsola == FindPitchMarksCall \/ PsolaShiftCall

SpecPsola == InitPsola /\ [][NextPsola]_vars

\* every frame of the run is voiced with a frequency and a target above 0
FullyVoiced ==
    /\ Len(run.frames) > 0
    /\ \A i \in 1..Len(run.frames) :
          /\ run.frames[i].voiced
          /\ run.frames[i].frequency > 0
          /\ run.targetFreqs[i] > 0

\* psolaShift ran past its early return
Resynthesized == pc = "shifted" /\ Len(run.marks) >= 2

\* C16: in psolaShift, for a fully voiced signal with at least 2 epoch marks, every
\* output sample position inside the extent of at least one placed grain has a
\* non-zero accumulated envelope value.
C16_CoveredHasEnvelope ==
    (Resynthesized /\ FullyVoiced) =>
        \A k \in 1..Len(signal) : run.covered[k] > 0 => run.envelope[k] # 0

\* envelope[i] > 0.001, the envelope being kept in 1/FxOne
AboveEpsilon(e) == 1000 * e > FxOne

\* C17: in psolaShift's normalization no output sample is divided by a zero or
\* near-zero envelope: every sample whose accumulated envelope is not above the
\* epsilon (0.001), every sample covered by no grain included, is set exactly to the
\* input sample at the same index; the others are the accumulated sample divided by
\* the envelope.
C17_FallbackToInput ==
    Resynthesized =>
        \A k \in 1..Len(signal) :
            /\ run.covered[k] = 0 => ~AboveEpsilon(run.envelope[k])
            /\ ~AboveEpsilon(run.envelope[k]) => run.corrected[k] = signal[k]
            /\ AboveEpsilon(run.envelope[k])
                  => run.corrected[k] = JsRound(run.accumulated[k], run.envelope[k])

\* a run with a non-zero sample no grain covers, kept as it was, and a sample that
\* the division changed
C17_Witness ==
    /\ Resynthesized
    /\ \E k \in 1..Len(signal) :
          run.covered[k] = 0 /\ signal[k] # 0 /\ run.corrected[k] = signal[k]
    /\ \E k \in 1..Len(signal) :
          AboveEpsilon(run.envelope[k]) /\ run.corrected[k] # signal[k]

\* findPitchMarks has returned
Marked == pc \in {"marked", "shifted"}

\* frame i (0-based) of the run is voiced with a frequency above 0
VoicedFrame(i) ==
    /\ i >= 0 /\ i < Len(run.frames)
    /\ At(run.frames, i).voiced
    /\ At(run.frames, i).frequency > 0

\* const period = Math.round(sampleRate / frame.frequency), of frame i (0-based)
PeriodOf(i) == JsRound(sampleRate * FreqScale, At(run.frames, i).frequency)

\* C18: the marks returned by findPitchMarks are strictly increasing and each is
\* a sample index in [0, signal.length), also for tracks whose period changes
\* from frame to frame and tracks with unvoiced gaps.
C18_MarksIncreasingInRange ==
    Marked =>
        /\ \A i \in 1..Len(run.marks) : run.marks[i] >= 0 /\ run.marks[i] < Len(signal)
        /\ \A i \in 1..(Len(run.marks) - 1) : run.marks[i] < run.marks[i + 1]

\* marks placed before and after an unvoiced gap, in voiced frames of different
\* periods
C18_Witness ==
    /\ Marked
    /\ Len(run.marks) >= 3
    /\ \E j \in 0..(Len(run.frames) - 1) :
          /\ ~VoicedFrame(j)
          /\ run.marks[1] < j * hopSize
          /\ run.marks[Len(run.marks)] >= (j + 1) * hopSize
    /\ \E i, k \in 0..(Len(run.frames) - 1) :
          VoicedFrame(i) /\ VoicedFrame(k) /\ PeriodOf(i) # PeriodOf(k)

\* C19: findPitchMarks places no mark inside an unvoiced span: every returned mark
\* lies in the range [i * hopSize, (i + 1) * hopSize) of a frame i that is voiced
\* with frequency > 0, also when voiced frames resume after a gap.
C19_NoMarkInUnvoicedSpan ==
    Marked => \A m \in 1..Len(run.marks) : VoicedFrame(FloorDiv(run.marks[m], hopSize))

\* the target frequency of the frame covering sample index k (0-based)
CoveringTarget(k) ==
    At(run.targetFreqs, getFrameIndex(k * PosScale, Len(run.frames), hopSize))

\* C20: unvoiced spans are pass-through in resynthesis: for every sample index
\* whose covering frame (floor(index / hopSize), clamped to the last frame) has
\* target frequency 0, the sample returned by psolaShift equals the input sample
\* at that index.
C20_UnvoicedPassThrough ==
    (pc = "shifted" /\ Len(run.frames) > 0) =>
        \A k \in 0..(Len(signal) - 1) :
            CoveringTarget(k) = 0 => At(run.corrected, k) = At(signal, k)

\* C21: findPitchMarks keeps placing marks until they exceed the signal length:
\* when every frame of the track is voiced, marking stops only once the next
\* estimated position (last mark + period) is at or beyond signal.length.
C21_MarksReachSignalEnd ==
    (Marked /\ FullyVoiced /\ Len(run.marks) > 0) =>
        run.marks[Len(run.marks)] + PeriodOf(Len(run.frames) - 1) >= Len(signal)

\* C22: for every output mark in psolaShift, the input mark chosen by the forward
\* search that resumes from the previous match is a true nearest input mark: no
\* input mark, earlier or later, is strictly closer to the output mark.
C22_ChosenMarkIsNearest ==
    Resynthesized =>
        /\ Len(run.chosen) = Len(run.outputMarks)
        /\ \A i \in 1..Len(run.outputMarks) :
              /\ \E m \in 1..Len(run.marks) : run.marks[m] = run.chosen[i]
              /\ \A m \in 1..Len(run.marks) :
                    Abs(run.outputMarks[i] - run.chosen[i])
                        <= Abs(run.outputMarks[i] - run.marks[m])

\* a run whose search moved forward twice and then stayed on a mark that has
\* later marks after it
C22_Witness ==
    /\ Resynthesized
    /\ \E i, j, k \in 1..Len(run.chosen) :
          /\ i < j /\ j < k
          /\ run.chosen[i] < run.chosen[j]
          /\ run.chosen[j] = run.chosen[k]
          /\ run.chosen[k] < run.marks[Len(run.marks)]

\* the output marks start at the first input mark and never step back
OutputMarksOrdered ==
    /\ Len(run.outputMarks) > 0
    /\ run.outputMarks[1] = run.marks[1]
    /\ \A i \in 1..(Len(run.outputMarks) - 1) : run.outputMarks[i] <= run.outputMarks[i + 1]

\* C23 (as stated): the output marks generated by psolaShift form a non-decreasing
\* sequence that starts at the first input mark and stays below signal.length.
C23_OutputMarksBelowLength ==
    Resynthesized =>
        /\ OutputMarksOrdered
        /\ \A i \in 1..Len(run.outputMarks) : run.outputMarks[i] < Len(signal)

\* C23 (amended): the output marks form a non-decreasing sequence that starts at
\* the first input mark and never exceeds signal.length.
C23_OutputMarksWithinLength ==
    Resynthesized =>
        /\ OutputMarksOrdered
        /\ \A i \in 1..Len(run.outputMarks) : run.outputMarks[i] <= Len(signal)

\* a run with a slow retune and humanize whose last output mark is signal.length
C23_Witness ==
    /\ Resynthesized
    /\ params.retuneSpeed > 0 /\ params.humanize > 0
    /\ Len(run.outputMarks) > 3
    /\ run.outputMarks[Len(run.outputMarks)] = Len(signal)

\* targetMidi = Math.round(frequencyToMidi(frame.frequency)) of frame i (0-based),
\* in cents
QuantizedMidi(i) == MidiScale * RoundMidi(frequencyToMidi(At(run.frames, i).frequency))

\* C24: computeTargetPitches returns exactly one target per frame, aligned by
\* index with the smoothed frames: 0 for every frame that is unvoiced or has
\* frequency <= 0, strictly positive for every other frame.
C24_OneTargetPerFrame ==
    Marked =>
        /\ Len(run.targetFreqs) = Len(run.frames)
        /\ \A i \in 0..(Len(run.frames) - 1) :
              IF VoicedFrame(i) THEN At(run.targetFreqs, i) > 0
              ELSE At(run.targetFreqs, i) = 0

\* a humanized run with unvoiced frames between voiced ones
C24_Witness ==
    /\ Marked
    /\ params.humanize > 0
    /\ \E i, j, k \in 0..(Len(run.frames) - 1) :
          /\ i < j /\ j < k
          /\ VoicedFrame(i) /\ ~VoicedFrame(j) /\ VoicedFrame(k)
          /\ At(run.targetFreqs, i) > 0 /\ At(run.targetFreqs, j) = 0
          /\ At(run.targetFreqs, k) > 0

\* C25: with retuneSpeed = 0 and humanize = 0 the target of every voiced frame
\* is the frequency of the semitone nearest to that frame's own pitch,
\* midiToFrequency(round(frequencyToMidi(frame.frequency))), independent of all
\* earlier frames.
C25_HardTuneSnapsToSemitone ==
    (Marked /\ params.retuneSpeed = 0 /\ params.humanize = 0) =>
        \A i \in 0..(Len(run.frames) - 1) :
            VoicedFrame(i) => At(run.targetFreqs, i) = midiToFrequency(QuantizedMidi(i))

\* a hard-tuned run whose voiced frames snap to different semitones, none of them
\* on the semitone already
C25_Witness ==
    /\ Marked
    /\ params.retuneSpeed = 0 /\ params.humanize = 0
    /\ \E i, k \in 0..(Len(run.frames) - 1) :
          /\ i < k /\ VoicedFrame(i) /\ VoicedFrame(k)
          /\ QuantizedMidi(i) # QuantizedMidi(k)
          /\ At(run.targetFreqs, i) # At(run.frames, i).frequency
          /\ At(run.targetFreqs, k) # At(run.frames, k).frequency
          /\ At(run.targetFreqs, k) = midiToFrequency(QuantizedMidi(k))

\* the quantized targets of the voiced frames up to frame i (0-based)
QuantizedSoFar(i) == { QuantizedMidi(j) : j \in { f \in 0..i : VoicedFrame(f) } }

\* C26: in computeTargetPitches, for any retuneSpeed in [0, 100], after each
\* voiced frame the running corrected-MIDI value lies between the smallest and the
\* largest quantized target (round(midi)) of the voiced frames processed so far;
\* unvoiced frames in between leave it unchanged.
C26_CorrectedMidiNeverOvershoots ==
    Marked =>
        \A i \in 0..(Len(run.frames) - 1) :
            IF VoicedFrame(i)
            THEN /\ \E q \in QuantizedSoFar(i) : q <= At(run.correctedMidi, i)
                 /\ \E q \in QuantizedSoFar(i) : q >= At(run.correctedMidi, i)
            ELSE At(run.correctedMidi, i) = (IF i = 0 THEN 0 ELSE At(run.correctedMidi, i - 1))

\* a slow retune across a change of note and an unvoiced frame: the running value
\* is strictly between the two notes
C26_Witness ==
    /\ Marked
    /\ params.retuneSpeed > 0
    /\ \E i, k \in 0..(Len(run.frames) - 1) :
          /\ i < k /\ VoicedFrame(i) /\ VoicedFrame(k)
          /\ QuantizedMidi(i) # QuantizedMidi(k)
          /\ At(run.correctedMidi, k) # QuantizedMidi(k)
          /\ At(run.correctedMidi, k) # QuantizedMidi(i)
    /\ \E j \in 1..(Len(run.frames) - 1) :
          ~VoicedFrame(j) /\ VoicedFrame(j - 1)

----------------------------------------------------------------------------
(* Specification SpecLag: detectPitch with the lag search of every frame kept *)

\* bestTau, bestVal, cmndf and the search range of the frames, in frame order
RECURSIVE LagLoop(_, _, _, _)
LagLoop(sig, sr, center, args) ==
    IF center + args.windowSize < Len(sig)
    THEN <<FrameLag(sig, sr, center, args.windowSize, args.threshold, args.minFreq,
                    args.maxFreq)>>
         \o LagLoop(sig, sr, center + args.hopSize, args)
    ELSE <<>>

\* track = detectPitch(signal, sampleRate, ...), with the locals of step 3 kept
ChooseLagCall ==
    /\ pc = "start"
    /\ LET t == detectPitch(signal, sampleRate, detectArgs.hopSize, detectArgs.windowSize,
                            detectArgs.threshold, detectArgs.minFreq, detectArgs.maxFreq)
       IN  /\ heap' = t.frames
           /\ track' = [t EXCEPT !.frames = [i \in 1..Len(t.frames) |-> i]]
    /\ run' = [lags |-> LagLoop(signal, sampleRate, 0, detectArgs)]
    /\ pc' = "detected"
    /\ UNCHANGED appVars
    /\ UNCHANGED <<signal, sampleRate, detectArgs, medianWindowSize, params, smoothed,
                   before, returned, output, hardOutput>>

NextLag == ChooseLagCall

\* windows long enough for a search range of several lags
LagWindows == {windowSize \div 2, windowSize}

\* the default threshold and the largest with 2 * threshold <= 1, in percent
LagThresholds == {DefaultThreshold, 50}

InitLag ==
    /\ AppMounted
    /\ signal \in PsolaSignals
    /\ sampleRate \in PipeRates
    /\ \E w \in LagWindows, th \in LagThresholds, b \in BandChoices :
          detectArgs = [hopSize |-> hopSize, windowSize |-> w, threshold |-> th,
                        minFreq |-> b.minFreq, maxFreq |-> b.maxFreq]
    /\ medianWindowSize = 0
    /\ params = NoParams
    /\ heap = <<>>
    /\ track = NoTrack
    /\ smoothed = <<>>
    /\ before = <<>>
    /\ returned = <<>>
    /\ output = <<>>
    /\ hardOutput = <<>>
    /\ run = [lags |-> <<>>]
    /\ pc = "start"

SpecLag == InitLag /\ [][NextLag]_vars

\* the lags of the search range of a frame
SearchRange(lag) == lag.searchMin..(lag.searchMax - 1)

\* the lags of the search range whose normalized difference is below the threshold
BelowThreshold(lag) ==
    { t \in SearchRange(lag) : Lt(lag.cmndf[t], Rat(detectArgs.threshold, 100)) }

\* tau is where the walk from the first lag below the threshold ends
IsFirstDip(lag, tau) ==
    LET first == CHOOSE t \in BelowThreshold(lag) : \A u \in BelowThreshold(lag) : t <= u
    IN  /\ tau >= first /\ tau < lag.searchMax
        /\ \A t \in first..(tau - 1) : Lt(lag.cmndf[t + 1], lag.cmndf[t])
        /\ ~(tau + 1 < lag.searchMax /\ Lt(lag.cmndf[tau + 1], lag.cmndf[tau]))

\* tau is a lag of the range that no lag of the range is strictly below
IsGlobalMin(lag, tau) ==
    /\ tau \in SearchRange(lag)
    /\ \A t \in SearchRange(lag) : ~Lt(lag.cmndf[t], lag.cmndf[tau])

\* some lag of the range has a normalized difference that is a number
HasNumber(lag) == \E t \in SearchRange(lag) : ~IsNaN(lag.cmndf[t])

----------------------------------------------------------------------------
(* Specification SpecSmooth: smoothPitchTrack called on a track, up to twice *)

MaxFrames == 5      \* longest track handed to smoothPitchTrack
MaxCalls  == 2      \* calls of smoothPitchTrack on the same track

\* frequencies of the voiced frames (mHz): an octave ladder and a fifth
SmoothFreqs == {220 * FreqScale, 330 * FreqScale, 440 * FreqScale}
SmoothWindows == {3, DefaultMedianWindow}
SmoothRate == 441 * 100
SmoothHop == 256

\* a track as detectPitch builds it: unvoiced frames carry frequency 0
TrackFrames(fs) ==
    [i \in 1..Len(fs) |->
        MakeFrame(JsRound((i - 1) * SmoothHop * TimeUnit, SmoothRate), fs[i],
                  IF fs[i] > 0 THEN CmScale - 1000 ELSE 0, fs[i] > 0)]

InitSmooth ==
    /\ AppMounted
    /\ signal = <<>>
    /\ sampleRate = SmoothRate
    /\ detectArgs = NoDetectArgs
    /\ medianWindowSize \in SmoothWindows
    /\ params = NoParams
    /\ \E n \in 0..MaxFrames : \E fs \in [1..n -> {0} \cup SmoothFreqs] :
          /\ heap = TrackFrames(fs)
          /\ track = [frames |-> [i \in 1..n |-> i], sampleRate |-> SmoothRate,
                      hopSize |-> SmoothHop, medianPitch |-> MedianPitch(TrackFrames(fs))]
    /\ smoothed = <<>>
    /\ before = <<>>
    /\ returned = <<>>
    /\ output = <<>>
    /\ hardOutput = <<>>
    /\ run = NoRun
    /\ pc = "start"

\* smoothed = smoothPitchTrack(track, medianWindowSize): the frame objects of the
\* track are updated, and the returned array refers to the same objects
SmoothPitchTrackCall ==
    /\ Len(returned) < MaxCalls
    /\ LET result == smoothPitchTrack(FramesOf(heap, track.frames), medianWindowSize)
       IN  /\ heap' = [r \in DOMAIN heap |->
                        IF \E i \in 1..Len(track.frames) : track.frames[i] = r
                        THEN result[CHOOSE i \in 1..Len(track.frames) : track.frames[i] = r]
                        ELSE heap[r]]
           /\ returned' = Append(returned, result)
    /\ before' = FramesOf(heap, track.frames)
    /\ smoothed' = track.frames
    /\ pc' = "smoothed"
    /\ UNCHANGED appVars
    /\ UNCHANGED <<signal, sampleRate, detectArgs, medianWindowSize, params, track,
                   output, hardOutput, run>>

NextSmooth == SmoothPitchTrackCall

SpecSmooth == InitSmooth /\ [][NextSmooth]_vars

----------------------------------------------------------------------------
(* Claims about smoothPitchTrack, checked under SpecSmooth *)

SameNote(a, b) ==
    /\ a.frequency = b.frequency
    /\ a.midiNote = b.midiNote
    /\ a.centsOff = b.centsOff
    /\ a.noteName = b.noteName

\* C8 (as stated): smoothPitchTrack leaves its input unchanged: after the call every
\* frame of the input track has the frequency, midiNote, centsOff and noteName it
\* had before the call, and a second call on the same track returns what the first
\* returned.
C8_InputUnchanged ==
    /\ pc = "smoothed" =>
          \A i \in 1..Len(track.frames) : SameNote(heap[track.frames[i]], before[i])
    /\ Len(returned) = 2 => returned[2] = returned[1]

\* the number of voiced frames in the window of frame i (0-based) of frames
VoicedInWindow(frames, i, windowArg) ==
    Len(Neighborhood(frames, Max(0, i - FloorDiv(windowArg, 2)),
                     Min(Len(frames) - 1, i + FloorDiv(windowArg, 2))))

\* frames are all voiced with frequency f, but for frame k (0-based), which has g
OneOutlier(frames, k, f, g) ==
    /\ k >= 2 /\ k + 2 <= Len(frames) - 1
    /\ \A i \in 0..(Len(frames) - 1) :
          /\ At(frames, i).voiced
          /\ At(frames, i).frequency = IF i = k THEN g ELSE f

\* C9: in a track of voiced frames of frequency f with one interior frame (at least
\* two frames on each side) at exactly 2f or f/2, smoothPitchTrack returns every
\* frame, the interior one included, with frequency f.
C9_OctaveJumpSuppressed ==
    Len(returned) = 1 =>
        \A k \in 0..(Len(before) - 1) : \A f \in SmoothFreqs :
            (OneOutlier(before, k, f, 2 * f) \/ (f % 2 = 0 /\ OneOutlier(before, k, f, f \div 2)))
            => \A i \in 1..Len(before) : returned[1][i].frequency = f

C9_Witness ==
    /\ Len(returned) = 1
    /\ \E k \in 0..(Len(before) - 1) : \E f \in SmoothFreqs :
          /\ OneOutlier(before, k, f, 2 * f)
          /\ At(returned[1], k).frequency = f

\* C10: a voiced frame with fewer than 3 voiced frames in its window of
\* +-floor(medianWindowSize / 2) frames is returned with frequency, midiNote,
\* centsOff and noteName unchanged.
C10_FewNeighborsUnchanged ==
    Len(returned) = 1 =>
        \A i \in 1..Len(before) :
            (before[i].voiced /\ VoicedInWindow(before, i - 1, medianWindowSize) < 3)
            => SameNote(returned[1][i], before[i])

\* a track in which one frame is passed through for lack of neighbours while
\* another frame of the same track is corrected
C10_Witness ==
    /\ Len(returned) = 1
    /\ \E i \in 1..Len(before) :
          /\ before[i].voiced
          /\ VoicedInWindow(before, i - 1, medianWindowSize) = 2
          /\ SameNote(returned[1][i], before[i])
    /\ \E j \in 1..Len(before) : returned[1][j].frequency # before[j].frequency

\* the frequency a pure transform gives frame i (0-based): the halve/double rule
\* applied to the input frequency of frame i with the median of the input
\* frequencies of the voiced frames of its window
PureFrequency(input, i, windowArg) == At(SmoothFrame(input, i, windowArg), i).frequency

\* C28 (as stated): smoothPitchTrack behaves as a pure transform of its input: the
\* frequency returned for frame i is the halve/double rule applied to the input
\* frequency of frame i with a median computed from the input frequencies of the
\* voiced frames in its window; corrections of earlier frames never influence
\* later frames.
C28_PureTransform ==
    Len(returned) = 1 =>
        \A i \in 0..(Len(before) - 1) :
            At(returned[1], i).frequency = PureFrequency(before, i, medianWindowSize)

----------------------------------------------------------------------------
(* The App component: file selection, recording, analysis and voice cloning. *)
(* The handlers run to completion one at a time; a call to the generative    *)
(* service stays pending until its promise settles, in any order.            *)

MaxRequests == 3    \* calls to the generative service in one behaviour

UploadFiles == {"take1.wav", "take2.wav"}
RecordingFile == "recording.wav"

\* what analyzeAudioCharacteristics resolves to when the service answers: the
\* analysis of the file named in the prompt
AnalysisOf(file) == file

\* what analyzeAudioCharacteristics resolves to when the service call throws
FallbackAnalysis == "fallback"

AnalysisOutcomes == {"data", "fallback"}

\* generateContent for a clone: a part with inlineData, none, or a thrown error
CloneOutcomes == {"audio", "noAudio", "error"}

Pending(api) ==
    {i \in 1..Len(requests) : requests[i].api = api /\ requests[i].status = "pending"}

\* runAnalysis(file) up to its await: isAnalyzing is set and the service is called
RunAnalysis(st, file) ==
    [state    |-> [st EXCEPT !.isAnalyzing = TRUE],
     requests |-> Append(requests, [api |-> "analysis", file |-> file,
                                    status |-> "pending", result |-> Null])]

\* handleFileChange with a file chosen
HandleFileChange(file) ==
    /\ Len(requests) < MaxRequests
    /\ audioFile' = file
    /\ LET cleared == [state EXCEPT !.analysis = Null, !.expertResultUrl = Null]
           started == RunAnalysis(cleared, file)
       IN  /\ state' = started.state
           /\ requests' = started.requests
    /\ UNCHANGED <<isRecording, recorder, cloneState, engineVars>>

\* handleToggleRecord: stop the recorder, or start one (getUserMedia granted and
\* the stop event of the previous recorder delivered)
HandleToggleRecord ==
    /\ IF isRecording
       THEN /\ recorder' = IF recorder = "recording" THEN "stopping" ELSE recorder
            /\ isRecording' = FALSE
       ELSE /\ recorder = "inactive"
            /\ recorder' = "recording"
            /\ isRecording' = TRUE
    /\ UNCHANGED <<audioFile, state, cloneState, requests, engineVars>>

\* recorder.onstop: the recording becomes the selected file and is analysed
RecorderOnStop ==
    /\ recorder = "stopping"
    /\ Len(requests) < MaxRequests
    /\ recorder' = "inactive"
    /\ audioFile' = RecordingFile
    /\ LET cleared == [state EXCEPT !.analysis = Null, !.expertResultUrl = Null]
           started == RunAnalysis(cleared, RecordingFile)
       IN  /\ state' = started.state
           /\ requests' = started.requests
    /\ UNCHANGED <<isRecording, cloneState, engineVars>>

\* runAnalysis after its await: the promise of request i settles with res
AnalysisReturns(i, outcome) ==
    /\ i \in Pending("analysis")
    /\ LET res == IF outcome = "data" THEN AnalysisOf(requests[i].file)
                  ELSE FallbackAnalysis
       IN  /\ state' = [state EXCEPT !.isAnalyzing = FALSE, !.analysis = res]
           /\ requests' = [requests EXCEPT ![i].status = "done", ![i].result = res]
    /\ UNCHANGED <<audioFile, isRecording, recorder, cloneState, engineVars>>

\* CloneView.handleRefFileChange with a file chosen
HandleRefFileChange(file) ==
    /\ cloneState' = [cloneState EXCEPT !.referenceVoice = file]
    /\ UNCHANGED <<audioFile, isRecording, recorder, state, requests, engineVars>>

\* the generate button of CloneView is enabled
GenerateEnabled == ~cloneState.isGenerating /\ cloneState.referenceVoice # Null

\* handleGenerateClone up to its await, called from the enabled button
HandleGenerateClone ==
    /\ GenerateEnabled
    /\ Len(requests) < MaxRequests
    /\ cloneState' = [cloneState EXCEPT !.isGenerating = TRUE,
                                        !.processingStep = "Neural Synthesis...",
                                        !.resultAudioUrl = Null]
    /\ requests' = Append(requests, [api |-> "clone", file |-> cloneState.referenceVoice,
                                     status |-> "pending", result |-> Null])
    /\ UNCHANGED <<audioFile, isRecording, recorder, state, engineVars>>

\* handleGenerateClone after its await: the synthesis request i ends
GenerateContentReturns(i, outcome) ==
    /\ i \in Pending("clone")
    /\ cloneState' =
          IF outcome = "audio"
          THEN [cloneState EXCEPT !.isGenerating = FALSE,
                                  !.resultAudioUrl = "blob:result.wav",
                                  !.processingStep = "Complete"]
          ELSE IF outcome = "error"
          THEN [cloneState EXCEPT !.isGenerating = FALSE,
                                  !.processingStep = "Inference Error"]
          ELSE cloneState
    /\ requests' = [requests EXCEPT ![i].status = "done", ![i].result = outcome]
    /\ UNCHANGED <<audioFile, isRecording, recorder, state, engineVars>>

SynthesisEnds ==
    \E i \in 1..MaxRequests, outcome \in CloneOutcomes : GenerateContentReturns(i, outcome)

InitApp ==
    /\ AppMounted
    /\ signal = <<>>
    /\ sampleRate = 0
    /\ detectArgs = NoDetectArgs
    /\ medianWindowSize = DefaultMedianWindow
    /\ params = NoParams
    /\ heap = <<>>
    /\ track = NoTrack
    /\ smoothed = <<>>
    /\ before = <<>>
    /\ returned = <<>>
    /\ output = <<>>
    /\ hardOutput = <<>>
    /\ run = NoRun
    /\ pc = "start"

NextApp ==
    \/ \E file \in UploadFiles : HandleFileChange(file)
    \/ HandleToggleRecord
    \/ RecorderOnStop
    \/ \E i \in 1..MaxRequests, outcome \in AnalysisOutcomes : AnalysisReturns(i, outcome)
    \/ \E file \in UploadFiles : HandleRefFileChange(file)
    \/ HandleGenerateClone
    \/ SynthesisEnds

SpecApp == InitApp /\ [][NextApp]_vars

\* every synthesis request ends: its promise resolves or rejects
SpecAppFair == SpecApp /\ WF_vars(SynthesisEnds)

\* C29 (as stated): every voice-clone generation started by handleGenerateClone
\* eventually ends with cloneState.isGenerating = false, whichever way the synthesis
\* request ends, so the generate button is re-enabled.
C29_GenerationEnds == cloneState.isGenerating ~> ~cloneState.isGenerating

\* the analysis requests made so far
AnalysisRequests == {i \in 1..Len(requests) : requests[i].api = "analysis"}

\* the request made for the currently selected file: the latest analysis request
RequestOfSelected == CHOOSE i \in AnalysisRequests : \A j \in AnalysisRequests : j <= i

\* C30 (as stated): when a new file is selected (or a recording finishes) while the
\* analysis of a previously selected file is still in flight, then once the
\* analyses have completed, in either order, state.analysis holds the result for
\* the currently selected file.
C30_AnalysisOfSelectedFile ==
    (Cardinality(AnalysisRequests) >= 2 /\ Pending("analysis") = {})
        => /\ requests[RequestOfSelected].file = audioFile
           /\ state.analysis = requests[RequestOfSelected].result

=============================================================================
